---------------------------- MODULE Spec2Model ----------------------------
(***************************************************************************)
(* Model of the billing core of ibp-geodns-collator:                       *)
(*   - the cost refresh and the summary store  (billing.refresh,           *)
(*     billing.GetSummary),                                                *)
(*   - the monthly generation job and its dedup guard                      *)
(*     (billing.Init, billing.generateMonthlyBillingPDF),                  *)
(*   - the downtime computation of the SLA evaluator                       *)
(*     (billing.calculateServiceDowntime, api.CalculateSLAAdjustments).    *)
(* Money is counted in whole price units and time in whole slots, so all   *)
(* arithmetic is exact.                                                    *)
(***************************************************************************)
EXTENDS Integers, Sequences, FiniteSets, TLC

VARIABLES
    \* ---- summary store (package-level variable billingStore) ----
    store,          \* [Members, Services, Refresh]: the published snapshot
    \* ---- monthly generation (package-level variables) ----
    now,            \* the wall clock, [mi, d, t]
    lastGeneratedBillingMonth,      \* month index, ZeroMonth when never set
    billingGenerationInProgress,    \* BOOLEAN
    billingGenMutex,                \* "free" or the goroutine holding it
    \* ---- goroutines of Init: "monthly" and "startup" ----
    pc,             \* position of each goroutine
    loc,            \* locals of each goroutine's generateMonthlyBillingPDF call
    nextMonth,      \* wake target of the monthly loop
    \* ---- the file system and a log of what happened ----
    files,          \* the month directories under {WorkDir}/tmp: the set of
                    \* <<month, artifact>> that exist
    hist,           \* history: facts about past runs the claims refer to
    \* ---- the summary store seen at the level of Go's map references ----
    heap,           \* address |-> contents of the map object at that address
    bstore,         \* billingStore: [Members, Services] hold addresses
    rw,             \* billingStore's RWMutex: [writer, readers]
    wstate,         \* the refreshing goroutine: [pc, Members, Services, stamp]
    rstate,         \* each GetSummary caller: [pc, ret, writes]
    pubs,           \* history: stamp |-> the snapshot published with that stamp
    \* ---- the process's start ----
    boot,           \* main: [pc, db, tasks]; db is data2.DB, tasks the goroutines
                    \* billing.Init has started
    timers,         \* one sleeping loop of Init and the wall clock it reads
    \* ---- the cost refresh on its own ----
    lastConfig,     \* history: the configuration the last refresh read
    \* ---- the downtime events and the SLA computed from them ----
    events,         \* the rows of table member_events
    slaOut          \* the last computation: [fn, ...] with its inputs and results

schedVars == <<now, lastGeneratedBillingMonth, billingGenerationInProgress,
               billingGenMutex, pc, loc, nextMonth, files, hist>>

\* the variables of the reference-level view of the store
refVars == <<heap, bstore, rw, wstate, rstate, pubs>>

\* the variables of the SLA computation
slaVars == <<events, slaOut>>

\* the input of the refresh under study
costVars == <<lastConfig>>

\* main's own state
bootVars == <<boot, timers>>

(***************************************************************************)
(* Generic helpers for Go maps, modelled as functions with a finite domain  *)
(***************************************************************************)
EmptyMap == [x \in {} |-> 0]

Put(f, k, v) == [x \in (DOMAIN f) \cup {k} |-> IF x = k THEN v ELSE f[x]]

RECURSIVE SumOver(_, _)
\* sum of f[x] over the finite set S
SumOver(f, S) ==
    IF S = {} THEN 0
    ELSE LET x == CHOOSE y \in S : TRUE IN f[x] + SumOver(f, S \ {x})

RECURSIVE Flatten(_)
\* the service names of all assignment groups, in iteration order
Flatten(groups) ==
    IF groups = <<>> THEN <<>> ELSE Head(groups) \o Flatten(Tail(groups))

(***************************************************************************)
(* Cost calculator                                                         *)
(***************************************************************************)

\* strings.ToLower(strings.TrimSpace(n)) on the names the model uses
Norm(n) ==
    CASE n = "S1"  -> "s1"
      [] n = " r1" -> "r1"
      [] OTHER     -> n

\* the price of one node, whatever the number of nodes
costForServiceInstance_perNode(res, price) ==
    IF res.Nodes = 0 THEN 0
    ELSE (res.Cores * price.Cores) + (res.Memory * price.Memory)
         + (res.Disk * price.Disk) + (res.Bandwidth * price.Bandwidth)

costForServiceInstance(res, price) ==
    IF res.Nodes = 0 THEN 0
    ELSE ((res.Cores * price.Cores) + (res.Memory * price.Memory)
          + (res.Disk * price.Disk) + (res.Bandwidth * price.Bandwidth)) * res.Nodes

\* index of the services by normalised name
svcByName(c) ==
    [k \in {Norm(n) : n \in DOMAIN c.Services} |->
        c.Services[CHOOSE n \in DOMAIN c.Services : Norm(n) = k]]

\* index of the price sheets by normalised region
priceByRegion(c) ==
    [k \in {Norm(r) : r \in DOMAIN c.Pricing} |->
        c.Pricing[CHOOSE r \in DOMAIN c.Pricing : Norm(r) = k]]

\* accumulate with the service-indexed entry assigned instead of added to
accumulate_overwrite(st, memName, svcName, c, price) ==
    LET key == Norm(svcName) IN
    IF key \notin DOMAIN svcByName(c) THEN st
    ELSE
      LET svc == svcByName(c)[key] IN
      IF svc.Active # 1 THEN st
      ELSE
        LET cost == costForServiceInstance(svc.Resources, price)
            mc   == st.memCost
            old  == IF svcName \in DOMAIN mc.ServiceCosts
                    THEN mc.ServiceCosts[svcName] ELSE 0
            sc0  == IF svcName \in DOMAIN st.newServiceCosts
                    THEN st.newServiceCosts[svcName]
                    ELSE [ServiceName |-> "", MemberCosts |-> EmptyMap, Total |-> 0]
            sc1  == IF sc0.ServiceName = ""
                    THEN [sc0 EXCEPT !.ServiceName = svcName, !.MemberCosts = EmptyMap]
                    ELSE sc0
            oldm == IF memName \in DOMAIN sc1.MemberCosts
                    THEN sc1.MemberCosts[memName] ELSE 0
        IN [memCost |->
                [mc EXCEPT !.ServiceCosts = Put(mc.ServiceCosts, svcName, old + cost),
                           !.Total = mc.Total + cost],
            newServiceCosts |->
                Put(st.newServiceCosts, svcName,
                    [sc1 EXCEPT !.MemberCosts = Put(sc1.MemberCosts, memName, cost),
                                !.Total = cost])]

\* body of the inner loop of refresh for one assigned service name;
\* st = [memCost, newServiceCosts]
accumulate(st, memName, svcName, c, price) ==
    LET key == Norm(svcName) IN
    IF key \notin DOMAIN svcByName(c) THEN st
    ELSE
      LET svc == svcByName(c)[key] IN
      IF svc.Active # 1 THEN st
      ELSE
        LET cost == costForServiceInstance(svc.Resources, price)
            mc   == st.memCost
            old  == IF svcName \in DOMAIN mc.ServiceCosts
                    THEN mc.ServiceCosts[svcName] ELSE 0
            sc0  == IF svcName \in DOMAIN st.newServiceCosts
                    THEN st.newServiceCosts[svcName]
                    ELSE [ServiceName |-> "", MemberCosts |-> EmptyMap, Total |-> 0]
            sc1  == IF sc0.ServiceName = ""
                    THEN [sc0 EXCEPT !.ServiceName = svcName, !.MemberCosts = EmptyMap]
                    ELSE sc0
            oldm == IF memName \in DOMAIN sc1.MemberCosts
                    THEN sc1.MemberCosts[memName] ELSE 0
        IN [memCost |->
                [mc EXCEPT !.ServiceCosts = Put(mc.ServiceCosts, svcName, old + cost),
                           !.Total = mc.Total + cost],
            newServiceCosts |->
                Put(st.newServiceCosts, svcName,
                    [sc1 EXCEPT !.MemberCosts = Put(sc1.MemberCosts, memName, oldm + cost),
                                !.Total = sc1.Total + cost])]

RECURSIVE accumulateAll(_, _, _, _, _)
\* the two nested loops over mem.ServiceAssignments
accumulateAll(st, memName, names, c, price) ==
    IF names = <<>> THEN st
    ELSE accumulateAll(accumulate(st, memName, Head(names), c, price),
                       memName, Tail(names), c, price)

\* one iteration of the loop over c.Members; acc = [Members, Services]
refreshMember(acc, memName, c) ==
    LET mem       == c.Members[memName]
        regionKey == Norm(mem.Region)
    IN
    IF regionKey \notin DOMAIN priceByRegion(c) THEN acc
    ELSE
      LET price == priceByRegion(c)[regionKey]
          st0   == [memCost |-> [MemberName |-> memName, ServiceCosts |-> EmptyMap,
                                 Total |-> 0],
                    newServiceCosts |-> acc.Services]
          st    == accumulateAll(st0, memName, Flatten(mem.ServiceAssignments), c, price)
      IN [Members  |-> IF st.memCost.Total > 0
                       THEN Put(acc.Members, memName, st.memCost)
                       ELSE acc.Members,
          Services |-> st.newServiceCosts]

\* the loop over c.Members ends at the first member whose region has no
\* price sheet
RECURSIVE refreshLoop_stopAtSkip(_, _, _)
refreshLoop_stopAtSkip(acc, todo, c) ==
    IF todo = {} THEN acc
    ELSE LET m == CHOOSE x \in todo : TRUE
         IN IF Norm(c.Members[m].Region) \notin DOMAIN priceByRegion(c) THEN acc
            ELSE refreshLoop_stopAtSkip(refreshMember(acc, m, c), todo \ {m}, c)

\* the loop over c.Members
RECURSIVE refreshLoop(_, _, _)
refreshLoop(acc, todo, c) ==
    IF todo = {} THEN acc
    ELSE LET m == CHOOSE x \in todo : TRUE
         IN refreshLoop(refreshMember(acc, m, c), todo \ {m}, c)

\* the maps refresh builds from configuration c and publishes
computeCosts(c) ==
    refreshLoop([Members |-> EmptyMap, Services |-> EmptyMap], DOMAIN c.Members, c)

(***************************************************************************)
(* Configurations the external provider may hand to a refresh              *)
(***************************************************************************)
MaxRefresh == 3         \* number of publishes explored

PricedSheet == [Cores |-> 3, Memory |-> 2, Disk |-> 1, Bandwidth |-> 1]

SmallNode == [Nodes |-> 1, Cores |-> 2, Memory |-> 1, Disk |-> 1, Bandwidth |-> 0]
NoNode    == [Nodes |-> 0, Cores |-> 2, Memory |-> 1, Disk |-> 1, Bandwidth |-> 1]
TwoNodes  == [Nodes |-> 2, Cores |-> 1, Memory |-> 0, Disk |-> 3, Bandwidth |-> 1]

AssignmentOptions ==
    { << >>,
      << <<"s1">> >>,
      << <<"s1", "s2">> >>,
      << <<"s1">>, <<"s2", "s1">> >>,
      << <<"S1">>, <<"sx", "s1">> >> }

MemberConfigs ==
    [ {"m1"} -> [Region : {"r1", "r0"}, ServiceAssignments : AssignmentOptions] ]
    \cup
    { [m \in {"m1", "m2"} |-> IF m = "m1" THEN a ELSE b] :
          a \in [Region : {"r1", "r0"}, ServiceAssignments : AssignmentOptions],
          b \in [Region : {" r1", "r0"}, ServiceAssignments : AssignmentOptions] }

ServiceConfigs ==
    { [s \in {"s1", "s2"} |-> IF s = "s1" THEN a ELSE b] :
          a \in [Active : {1}, Resources : {SmallNode, NoNode}],
          b \in [Active : {0, 1}, Resources : {TwoNodes}] }

Configs ==
    [Members : MemberConfigs, Services : ServiceConfigs,
     Pricing : { [r \in {"r1"} |-> PricedSheet] }]

(***************************************************************************)
(* refresh: compute, then publish under the store's write lock             *)
(***************************************************************************)
Publish(maps, stamp) ==
    [Members |-> maps.Members, Services |-> maps.Services, Refresh |-> stamp]

\* refresh(verbose) run against configuration c
Refresh(c) ==
    /\ store.Refresh < MaxRefresh
    /\ store' = Publish(computeCosts(c), store.Refresh + 1)

(***************************************************************************)
(* Sums the cost invariant speaks about                                     *)
(***************************************************************************)
MemberTotals(s) ==
    SumOver([m \in DOMAIN s.Members |-> s.Members[m].Total], DOMAIN s.Members)

ServiceTotals(s) ==
    SumOver([x \in DOMAIN s.Services |-> s.Services[x].Total], DOMAIN s.Services)

\* sum of the per-pair costs, read off the member-indexed map
MemberPairSum(s) ==
    SumOver([m \in DOMAIN s.Members |->
                SumOver(s.Members[m].ServiceCosts, DOMAIN s.Members[m].ServiceCosts)],
            DOMAIN s.Members)

\* sum of the per-pair costs, read off the service-indexed map
ServicePairSum(s) ==
    SumOver([x \in DOMAIN s.Services |->
                SumOver(s.Services[x].MemberCosts, DOMAIN s.Services[x].MemberCosts)],
            DOMAIN s.Services)

(***************************************************************************)
(* Calendar: the parts of Go's time package the scheduler uses.            *)
(* A time is [mi, d, t]: mi counts months from January of BaseYear, d is    *)
(* the day of the month, t the part of the day:                            *)
(*   0 = [00:00, 00:05)   1 = [00:05, 01:00)   2 = [01:00, 24:00)           *)
(* The scheduler looks at the time of day on the 1st only, and at the day  *)
(* only to tell the 1st and the days past the end of the previous month,   *)
(* so the clock visits the three parts of the 1st and then the days 2, 28, *)
(* 29, 30 and 31 that the month has (day 2 stands for the days 2..27).     *)
(***************************************************************************)
BaseYear == 2025        \* the year of month index 0
MaxMonth == 2           \* the clock runs through months 0..MaxMonth
MaxFailures == 2        \* file-system operations that may fail in one behaviour
MaxRunTicks == 1        \* clock ticks that may pass while a goroutine is inside
                        \* one generateMonthlyBillingPDF call

YearOf(mi)  == BaseYear + (mi \div 12)
MonthOf(mi) == (mi % 12) + 1

IsLeap(y) == (y % 4 = 0 /\ y % 100 # 0) \/ y % 400 = 0

DaysIn(mi) ==
    LET m == MonthOf(mi) IN
    IF m = 2 THEN (IF IsLeap(YearOf(mi)) THEN 29 ELSE 28)
    ELSE IF m \in {4, 6, 9, 11} THEN 30 ELSE 31

\* the zero time.Time (January of year 1), as a month index
ZeroMonth == (1 - BaseYear) * 12

\* t.AddDate(0, k, 0): the month is moved by k and the date normalised, so a
\* day past the end of the target month overflows into the month after it
AddDate(t, k) ==
    LET m2 == t.mi + k IN
    IF t.d > DaysIn(m2)
    THEN [t EXCEPT !.mi = m2 + 1, !.d = t.d - DaysIn(m2)]
    ELSE [t EXCEPT !.mi = m2]

\* time.Date(t.Year(), t.Month(), 1, 0, 0, 0, 0, time.UTC), as a month index
MonthStart(t) == t.mi

\* a.Before(b)
Before(a, b) ==
    \/ a.mi < b.mi
    \/ a.mi = b.mi /\ a.d < b.d
    \/ a.mi = b.mi /\ a.d = b.d /\ a.t < b.t

ClockDays == {1, 2, 28, 29, 30, 31}

Times == { [mi |-> m, d |-> d, t |-> t] :
              m \in 0..MaxMonth, d \in ClockDays, t \in 0..2 }

ValidTimes == { x \in Times : x.d <= DaysIn(x.mi) /\ (x.d # 1 => x.t = 2) }

\* the clock's next value
NextTime(x) ==
    IF x.t < 2 THEN [x EXCEPT !.t = x.t + 1]
    ELSE IF x.d < DaysIn(x.mi)
         THEN [x EXCEPT !.d = IF x.d = 1 THEN 2 ELSE IF x.d = 2 THEN 28 ELSE x.d + 1]
         ELSE [mi |-> x.mi + 1, d |-> 1, t |-> 0]

(***************************************************************************)
(* The goroutines Init starts                                               *)
(***************************************************************************)
Procs == {"monthly", "startup"}

GenPcs  == {"g_start", "g_lock", "g_guard", "g_mkdir", "g_snap", "g_sla",
            "g_overview", "g_members", "g_defer_lock", "g_defer"}
\* positions between the guard and the deferred function of one call
BodyPcs == {"g_mkdir", "g_snap", "g_sla", "g_overview", "g_members",
            "g_defer_lock", "g_defer"}

EmptySummary == [Members |-> EmptyMap, Services |-> EmptyMap, Refresh |-> 0]

LocInit ==
    [now |-> [mi |-> 0, d |-> 1, t |-> 0], billingMonth |-> 0,
     snap |-> EmptySummary, hadError |-> FALSE, success |-> FALSE,
     todo |-> {}, attempted |-> {}, written |-> {}, lastMonthStart |-> 0,
     ticks |-> 0]

HistInit ==
    [fired |-> {},        \* the time of the monthly loop's last firing
     done |-> << >>,      \* the months of the runs that succeeded, in order
     failed |-> {},       \* months whose last run failed and that no run completed since
     failures |-> 0]      \* number of file-system operations that failed

\* GetSummary(): a deep copy of the snapshot, taken under the read lock
GetSummary == store

\* where a goroutine continues when generateMonthlyBillingPDF returns
ReturnTo(p) == IF p = "monthly" THEN "m_compute" ELSE "s_daily"

Return(p) ==
    /\ pc' = [pc EXCEPT ![p] = ReturnTo(p)]
    /\ loc' = [loc EXCEPT ![p] = LocInit]

(***************************************************************************)
(* The monthly loop of Init                                                 *)
(***************************************************************************)
\* the wake target the loop computes at time n
MonthlyTarget(n) ==
    LET first == AddDate([mi |-> n.mi, d |-> 1, t |-> 1], 1)
    IN IF n.d = 1 /\ n.t = 1 THEN AddDate(first, 1) ELSE first

MonthlyCompute ==
    /\ pc["monthly"] = "m_compute"
    /\ nextMonth' = MonthlyTarget(now)
    /\ pc' = [pc EXCEPT !["monthly"] = "m_sleep"]
    /\ UNCHANGED <<refVars, slaVars, costVars, bootVars>>
    /\ UNCHANGED <<store, now, lastGeneratedBillingMonth, billingGenerationInProgress,
                   billingGenMutex, loc, files, hist>>

\* time.Sleep(waitDuration) returns and generateMonthlyBillingPDF is called
MonthlyWake ==
    /\ pc["monthly"] = "m_sleep"
    /\ ~Before(now, nextMonth)
    /\ pc' = [pc EXCEPT !["monthly"] = "g_start"]
    /\ hist' = [hist EXCEPT !.fired = {now}]
    /\ UNCHANGED <<refVars, slaVars, costVars, bootVars>>
    /\ UNCHANGED <<store, now, lastGeneratedBillingMonth, billingGenerationInProgress,
                   billingGenMutex, loc, nextMonth, files>>

(***************************************************************************)
(* The startup catch-up goroutine of Init                                   *)
(***************************************************************************)
\* time.Sleep(5 * time.Second) returns
StartupWake ==
    /\ pc["startup"] = "s_sleep"
    /\ pc' = [pc EXCEPT !["startup"] = "s_check"]
    /\ loc' = [loc EXCEPT !["startup"].ticks = 0]
    /\ UNCHANGED <<refVars, slaVars, costVars, bootVars>>
    /\ UNCHANGED <<store, now, lastGeneratedBillingMonth, billingGenerationInProgress,
                   billingGenMutex, nextMonth, files, hist>>

\* now.Day() >= 1 holds on every date, so the check is always made
StartupCheck ==
    /\ pc["startup"] = "s_check"
    /\ now.d >= 1
    /\ loc' = [loc EXCEPT !["startup"].now = now,
                          !["startup"].lastMonthStart = MonthStart(AddDate(now, -1))]
    /\ pc' = [pc EXCEPT !["startup"] = "s_lock"]
    /\ UNCHANGED <<refVars, slaVars, costVars, bootVars>>
    /\ UNCHANGED <<store, now, lastGeneratedBillingMonth, billingGenerationInProgress,
                   billingGenMutex, nextMonth, files, hist>>

StartupLock ==
    /\ pc["startup"] = "s_lock"
    /\ billingGenMutex = "free"
    /\ billingGenMutex' = "startup"
    /\ pc' = [pc EXCEPT !["startup"] = "s_read"]
    /\ UNCHANGED <<refVars, slaVars, costVars, bootVars>>
    /\ UNCHANGED <<store, now, lastGeneratedBillingMonth, billingGenerationInProgress,
                   loc, nextMonth, files, hist>>

\* needsGeneration is read, the mutex released, and the branch taken
StartupRead ==
    /\ pc["startup"] = "s_read"
    /\ billingGenMutex' = "free"
    /\ pc' = [pc EXCEPT !["startup"] =
                 IF lastGeneratedBillingMonth < loc["startup"].lastMonthStart
                 THEN "g_start" ELSE "s_daily"]
    /\ UNCHANGED <<refVars, slaVars, costVars, bootVars>>
    /\ UNCHANGED <<store, now, lastGeneratedBillingMonth, billingGenerationInProgress,
                   loc, nextMonth, files, hist>>

\* generateServiceCostPDF(): the day's file goes to the tmp directory itself,
\* not to a month directory, and no state of the monthly job is touched
StartupDaily ==
    /\ pc["startup"] = "s_daily"
    /\ pc' = [pc EXCEPT !["startup"] = "s_done"]
    /\ UNCHANGED <<refVars, slaVars, costVars, bootVars>>
    /\ UNCHANGED <<store, now, lastGeneratedBillingMonth, billingGenerationInProgress,
                   billingGenMutex, loc, nextMonth, files, hist>>

(***************************************************************************)
(* generateMonthlyBillingPDF, called by goroutine p                         *)
(***************************************************************************)
\* the target month of a call made at time n: the month of n.AddDate(0,-1,0)
BillingMonth(n) == MonthStart(AddDate(n, -1))

GenStart(p) ==
    /\ pc[p] = "g_start"
    /\ loc' = [loc EXCEPT ![p].now = now, ![p].billingMonth = BillingMonth(now)]
    /\ pc' = [pc EXCEPT ![p] = "g_lock"]
    /\ UNCHANGED <<refVars, slaVars, costVars, bootVars>>
    /\ UNCHANGED <<store, now, lastGeneratedBillingMonth, billingGenerationInProgress,
                   billingGenMutex, nextMonth, files, hist>>

GenLock(p) ==
    /\ pc[p] = "g_lock"
    /\ billingGenMutex = "free"
    /\ billingGenMutex' = p
    /\ pc' = [pc EXCEPT ![p] = "g_guard"]
    /\ UNCHANGED <<refVars, slaVars, costVars, bootVars>>
    /\ UNCHANGED <<store, now, lastGeneratedBillingMonth, billingGenerationInProgress,
                   loc, nextMonth, files, hist>>

\* the guard with the in-progress test left out
GuardPasses_noInProgress(p) ==
    lastGeneratedBillingMonth < loc[p].billingMonth

\* both tests of the guard pass
GuardPasses(p) ==
    /\ lastGeneratedBillingMonth < loc[p].billingMonth
    /\ ~billingGenerationInProgress

\* the guard keeping the mutex when the run goes on
GenGuard_keepMutex(p) ==
    /\ pc[p] = "g_guard"
    /\ IF GuardPasses(p)
       THEN /\ billingGenerationInProgress' = TRUE
            /\ billingGenMutex' = billingGenMutex
            /\ pc' = [pc EXCEPT ![p] = "g_mkdir"]
            /\ loc' = loc
       ELSE /\ billingGenerationInProgress' = billingGenerationInProgress
            /\ billingGenMutex' = "free"
            /\ Return(p)
    /\ UNCHANGED <<refVars, slaVars, costVars, bootVars>>
    /\ UNCHANGED <<store, now, lastGeneratedBillingMonth, nextMonth, files, hist>>

\* the two tests under the mutex; the mutex is released on every branch
GenGuard(p) ==
    /\ pc[p] = "g_guard"
    /\ billingGenMutex' = "free"
    /\ IF GuardPasses(p)
       THEN /\ billingGenerationInProgress' = TRUE
            /\ pc' = [pc EXCEPT ![p] = "g_mkdir"]
            /\ loc' = loc
       ELSE /\ billingGenerationInProgress' = billingGenerationInProgress
            /\ Return(p)
    /\ UNCHANGED <<refVars, slaVars, costVars, bootVars>>
    /\ UNCHANGED <<store, now, lastGeneratedBillingMonth, nextMonth, files, hist>>

\* resolveTempDir returns filepath.Join(WorkDir, "tmp"), which is never empty,
\* so the first early return is never taken; os.MkdirAll succeeds or fails
GenMkdir(p) ==
    /\ pc[p] = "g_mkdir"
    /\ \E ok \in BOOLEAN :
          /\ ok \/ hist.failures < MaxFailures
          /\ pc' = [pc EXCEPT ![p] = IF ok THEN "g_snap" ELSE "g_defer_lock"]
          /\ hist' = [hist EXCEPT !.failures = IF ok THEN @ ELSE @ + 1]
    /\ UNCHANGED <<refVars, slaVars, costVars, bootVars>>
    /\ UNCHANGED <<store, now, lastGeneratedBillingMonth, billingGenerationInProgress,
                   billingGenMutex, loc, nextMonth, files>>

GenSnap(p) ==
    /\ pc[p] = "g_snap"
    /\ loc' = [loc EXCEPT ![p].snap = GetSummary]
    /\ pc' = [pc EXCEPT ![p] = "g_sla"]
    /\ UNCHANGED <<refVars, slaVars, costVars, bootVars>>
    /\ UNCHANGED <<store, now, lastGeneratedBillingMonth, billingGenerationInProgress,
                   billingGenMutex, nextMonth, files, hist>>

\* CalculateSLAAdjustments returns a table, or fails and an empty table is used:
\* the run goes on either way
GenSla(p) ==
    /\ pc[p] = "g_sla"
    /\ pc' = [pc EXCEPT ![p] = "g_overview"]
    /\ UNCHANGED <<refVars, slaVars, costVars, bootVars>>
    /\ UNCHANGED <<store, now, lastGeneratedBillingMonth, billingGenerationInProgress,
                   billingGenMutex, loc, nextMonth, files, hist>>

\* one artifact write of goroutine p's run: it succeeds or fails
WriteArtifact(p, name, ok, todo) ==
    /\ ok \/ hist.failures < MaxFailures
    /\ files' = IF ok THEN files \cup {<<loc[p].billingMonth, name>>} ELSE files
    /\ hist' = [hist EXCEPT !.failures = IF ok THEN @ ELSE @ + 1]
    /\ loc' = [loc EXCEPT ![p].attempted = @ \cup {name},
                          ![p].written = IF ok THEN @ \cup {name} ELSE @,
                          ![p].hadError = IF ok THEN @ ELSE TRUE,
                          ![p].todo = todo]

\* the overview written, and the member loop ranging over a Summary read anew
GenOverview_secondSummary(p) ==
    /\ pc[p] = "g_overview"
    /\ \E ok \in BOOLEAN :
          WriteArtifact(p, "overview", ok, DOMAIN GetSummary.Members)
    /\ pc' = [pc EXCEPT ![p] = "g_members"]
    /\ UNCHANGED <<refVars, slaVars, costVars, bootVars>>
    /\ UNCHANGED <<store, now, lastGeneratedBillingMonth, billingGenerationInProgress,
                   billingGenMutex, nextMonth>>

\* writeMonthlyOverviewPDF(&snap, ...), then the loop over snap.Members begins
GenOverview(p) ==
    /\ pc[p] = "g_overview"
    /\ \E ok \in BOOLEAN :
          WriteArtifact(p, "overview", ok, DOMAIN loc[p].snap.Members)
    /\ pc' = [pc EXCEPT ![p] = "g_members"]
    /\ UNCHANGED <<refVars, slaVars, costVars, bootVars>>
    /\ UNCHANGED <<store, now, lastGeneratedBillingMonth, billingGenerationInProgress,
                   billingGenMutex, nextMonth>>

\* the loop stops at the first member artifact that fails
GenMember_stopOnError(p) ==
    /\ pc[p] = "g_members"
    /\ loc[p].todo # {}
    /\ \E m \in loc[p].todo, ok \in BOOLEAN :
          WriteArtifact(p, m, ok, IF ok THEN loc[p].todo \ {m} ELSE {})
    /\ UNCHANGED <<refVars, slaVars, costVars, bootVars>>
    /\ UNCHANGED <<store, now, lastGeneratedBillingMonth, billingGenerationInProgress,
                   billingGenMutex, pc, nextMonth>>

\* one iteration of the loop over snap.Members
GenMember(p) ==
    /\ pc[p] = "g_members"
    /\ loc[p].todo # {}
    /\ \E m \in loc[p].todo, ok \in BOOLEAN :
          WriteArtifact(p, m, ok, loc[p].todo \ {m})
    /\ UNCHANGED <<refVars, slaVars, costVars, bootVars>>
    /\ UNCHANGED <<store, now, lastGeneratedBillingMonth, billingGenerationInProgress,
                   billingGenMutex, pc, nextMonth>>

\* after the loop: return on hadError, else success = true
GenFinish(p) ==
    /\ pc[p] = "g_members"
    /\ loc[p].todo = {}
    /\ loc' = [loc EXCEPT ![p].success = ~loc[p].hadError]
    /\ pc' = [pc EXCEPT ![p] = "g_defer_lock"]
    /\ UNCHANGED <<refVars, slaVars, costVars, bootVars>>
    /\ UNCHANGED <<store, now, lastGeneratedBillingMonth, billingGenerationInProgress,
                   billingGenMutex, nextMonth, files, hist>>

GenDeferLock(p) ==
    /\ pc[p] = "g_defer_lock"
    /\ billingGenMutex = "free"
    /\ billingGenMutex' = p
    /\ pc' = [pc EXCEPT ![p] = "g_defer"]
    /\ UNCHANGED <<refVars, slaVars, costVars, bootVars>>
    /\ UNCHANGED <<store, now, lastGeneratedBillingMonth, billingGenerationInProgress,
                   loc, nextMonth, files, hist>>

\* the deferred function recording the month whatever the run's outcome
Recorded_always(p) ==
    IF lastGeneratedBillingMonth < loc[p].billingMonth
    THEN loc[p].billingMonth ELSE lastGeneratedBillingMonth

\* the value the deferred function leaves in lastGeneratedBillingMonth
Recorded(p) ==
    IF loc[p].success /\ lastGeneratedBillingMonth < loc[p].billingMonth
    THEN loc[p].billingMonth ELSE lastGeneratedBillingMonth

\* the deferred function resetting the flag after a successful run only
GenDefer_resetOnSuccess(p) ==
    /\ pc[p] = "g_defer"
    /\ billingGenerationInProgress' = ~loc[p].success
    /\ lastGeneratedBillingMonth' = Recorded(p)
    /\ billingGenMutex' = "free"
    /\ hist' = IF loc[p].success
               THEN [hist EXCEPT !.done = Append(@, loc[p].billingMonth),
                                 !.failed = @ \ {loc[p].billingMonth}]
               ELSE [hist EXCEPT !.failed = @ \cup {loc[p].billingMonth}]
    /\ Return(p)
    /\ UNCHANGED <<refVars, slaVars, costVars, bootVars>>
    /\ UNCHANGED <<store, now, nextMonth, files>>

\* the deferred function, then the return to the caller
GenDefer(p) ==
    /\ pc[p] = "g_defer"
    /\ billingGenerationInProgress' = FALSE
    /\ lastGeneratedBillingMonth' = Recorded(p)
    /\ billingGenMutex' = "free"
    /\ hist' = IF loc[p].success
               THEN [hist EXCEPT !.done = Append(@, loc[p].billingMonth),
                                 !.failed = @ \ {loc[p].billingMonth}]
               ELSE [hist EXCEPT !.failed = @ \cup {loc[p].billingMonth}]
    /\ Return(p)
    /\ UNCHANGED <<refVars, slaVars, costVars, bootVars>>
    /\ UNCHANGED <<store, now, nextMonth, files>>

(***************************************************************************)
(* The environment: the clock, the configuration provider, API requests    *)
(***************************************************************************)
\* positions whose code runs for a short time only
TimedPcs == GenPcs \cup {"s_check", "s_lock", "s_read"}

\* the clock moves to its next value; a sleeper whose target is reached wakes
\* before the clock moves on
Tick ==
    /\ NextTime(now).mi <= MaxMonth
    /\ pc["monthly"] # "m_compute"
    /\ ~(pc["monthly"] = "m_sleep" /\ ~Before(now, nextMonth))
    /\ pc["startup"] # "s_daily"
    /\ \A p \in Procs :
          /\ pc[p] \in TimedPcs => loc[p].ticks < MaxRunTicks
          /\ pc[p] = "s_sleep" => loc[p].ticks < 1
    /\ now' = NextTime(now)
    /\ loc' = [p \in Procs |->
                 IF pc[p] \in TimedPcs \cup {"s_sleep"}
                 THEN [loc[p] EXCEPT !.ticks = @ + 1] ELSE loc[p]]
    /\ UNCHANGED <<refVars, slaVars, costVars, bootVars>>
    /\ UNCHANGED <<store, lastGeneratedBillingMonth, billingGenerationInProgress,
                   billingGenMutex, pc, nextMonth, files, hist>>

ConfigA ==
    [Members  |-> [m \in {"m1", "m2"} |->
                     IF m = "m1"
                     THEN [Region |-> "r1", ServiceAssignments |-> << <<"s1">> >>]
                     ELSE [Region |-> " r1",
                           ServiceAssignments |-> << <<"s1", "s2">> >>]],
     Services |-> [s \in {"s1", "s2"} |->
                     IF s = "s1" THEN [Active |-> 1, Resources |-> SmallNode]
                     ELSE [Active |-> 1, Resources |-> TwoNodes]],
     Pricing  |-> [r \in {"r1"} |-> PricedSheet]]

ConfigB ==
    [Members  |-> [m \in {"m1"} |->
                     [Region |-> "r1", ServiceAssignments |-> << <<"s1">> >>]],
     Services |-> [s \in {"s1", "s2"} |->
                     IF s = "s1" THEN [Active |-> 1, Resources |-> SmallNode]
                     ELSE [Active |-> 0, Resources |-> TwoNodes]],
     Pricing  |-> [r \in {"r1"} |-> PricedSheet]]

\* the configurations in force while the scheduler is explored
SchedConfigs == {ConfigA, ConfigB}

MaxSchedRefresh == 2    \* publishes explored while the scheduler runs

\* the hourly loop's refresh(false)
HourlyRefresh ==
    /\ store.Refresh < MaxSchedRefresh
    /\ \E c \in SchedConfigs : Refresh(c)
    /\ UNCHANGED schedVars
    /\ UNCHANGED <<refVars, slaVars, costVars, bootVars>>

\* handleBillingBreakdown called at time n without month and year: the month
\* it reports on
DefaultBreakdownMonth(n) == MonthStart(AddDate(n, -1))

(***************************************************************************)
(* The scheduler: billing.Init at any date, then its goroutines            *)
(***************************************************************************)
\* no SLA computation is in view
SlaOff ==
    /\ events = {}
    /\ slaOut = [fn |-> "none"]

\* no refresh is under study
NoConfig == [Members |-> EmptyMap, Services |-> EmptyMap, Pricing |-> EmptyMap]

CostOff == lastConfig = NoConfig

\* main is not in view
BootOff ==
    /\ boot = [pc |-> "off", db |-> "open", tasks |-> {}]
    /\ timers = [loop |-> "off"]

\* the reference-level view is not in use, nor is the SLA computation
RefOff ==
    /\ heap = EmptyMap
    /\ bstore = EmptySummary
    /\ rw = [writer |-> FALSE, readers |-> {}]
    /\ wstate = [pc |-> "off"]
    /\ rstate = EmptyMap
    /\ pubs = EmptyMap
    /\ SlaOff

SchedIdle ==
    /\ lastGeneratedBillingMonth = ZeroMonth
    /\ billingGenerationInProgress = FALSE
    /\ billingGenMutex = "free"
    /\ loc = [p \in Procs |-> LocInit]
    /\ nextMonth = [mi |-> 0, d |-> 1, t |-> 0]
    /\ files = {}
    /\ hist = HistInit

Init ==
    /\ \E c \in SchedConfigs : store = Publish(computeCosts(c), 1)
    /\ now \in ValidTimes
    /\ pc = [p \in Procs |-> IF p = "monthly" THEN "m_compute" ELSE "s_sleep"]
    /\ SchedIdle
    /\ RefOff
    /\ CostOff
    /\ BootOff

Generate(p) ==
    \/ GenStart(p)
    \/ GenLock(p)
    \/ GenGuard(p)
    \/ GenMkdir(p)
    \/ GenSnap(p)
    \/ GenSla(p)
    \/ GenOverview(p)
    \/ GenMember(p)
    \/ GenFinish(p)
    \/ GenDeferLock(p)
    \/ GenDefer(p)

Next ==
    \/ MonthlyCompute
    \/ MonthlyWake
    \/ StartupWake
    \/ StartupCheck
    \/ StartupLock
    \/ StartupRead
    \/ StartupDaily
    \/ \E p \in Procs : Generate(p)
    \/ Tick
    \/ HourlyRefresh

vars == <<store, now, lastGeneratedBillingMonth, billingGenerationInProgress,
          billingGenMutex, pc, loc, nextMonth, files, hist,
          heap, bstore, rw, wstate, rstate, pubs, boot, timers, lastConfig, events, slaOut>>

Spec == Init /\ [][Next]_vars

(***************************************************************************)
(* Claims about the monthly generation job, checked under Spec             *)
(***************************************************************************)
ArtifactsOf(snapshot) == {"overview"} \cup DOMAIN snapshot.Members

\* C2: of two triggers racing for the same month at most one is inside the
\* generation body at any time, no call enters the body for a month a run
\* has completed, and no month is completed twice.
C2_OneRunPerMonth ==
    /\ \A p, q \in Procs :
          p # q => ~(pc[p] \in BodyPcs /\ pc[q] \in BodyPcs)
    /\ \A p \in Procs :
          pc[p] \in BodyPcs =>
             \A i \in 1..Len(hist.done) : hist.done[i] # loc[p].billingMonth
    /\ \A i, j \in 1..Len(hist.done) : i # j => hist.done[i] # hist.done[j]

\* a second trigger for the same month is at the guard while a run is going on
C2_Witness ==
    \E p, q \in Procs :
       /\ p # q
       /\ pc[p] \in BodyPcs
       /\ pc[q] = "g_guard"
       /\ loc[q].billingMonth = loc[p].billingMonth

\* C3: lastGeneratedBillingMonth changes only in the deferred function of a
\* run that wrote the overview and every member artifact without error, it
\* becomes that run's target month, and it only grows.
C3_RecordedOnlyOnSuccess ==
    [][ lastGeneratedBillingMonth' # lastGeneratedBillingMonth =>
          \E p \in Procs :
             /\ pc[p] = "g_defer"
             /\ pc'[p] # "g_defer"
             /\ loc[p].success
             /\ ~loc[p].hadError
             /\ loc[p].written = ArtifactsOf(loc[p].snap)
             /\ lastGeneratedBillingMonth' = loc[p].billingMonth
             /\ lastGeneratedBillingMonth' > lastGeneratedBillingMonth ]_vars

\* a month has been recorded after an earlier run failed
C3_Witness ==
    /\ lastGeneratedBillingMonth # ZeroMonth
    /\ hist.failures > 0

\* C4: a run in which a write failed has attempted the overview and every
\* member artifact when it ends, and it ends with the in-progress flag false
\* and lastGeneratedBillingMonth unchanged and below its target month, so the
\* guard passes for that month again.
C4_FailedRunIsRetryable ==
    [][ \A p \in Procs :
          (pc[p] = "g_defer" /\ pc'[p] # "g_defer" /\ loc[p].hadError) =>
             /\ loc[p].attempted = ArtifactsOf(loc[p].snap)
             /\ billingGenerationInProgress' = FALSE
             /\ lastGeneratedBillingMonth' = lastGeneratedBillingMonth
             /\ lastGeneratedBillingMonth' < loc[p].billingMonth ]_vars

\* a run whose overview failed is ending, having written both member artifacts
C4_Witness ==
    \E p \in Procs :
       /\ pc[p] = "g_defer"
       /\ loc[p].hadError
       /\ "overview" \notin loc[p].written
       /\ loc[p].written = {"m1", "m2"}

\* The scheduler with its goroutines kept running: a goroutine that can take a
\* step of generateMonthlyBillingPDF takes it (the Go scheduler runs every
\* runnable goroutine, each file operation returns with or without an error),
\* and the startup check releases the mutex it took
SpecLive ==
    /\ Init
    /\ [][Next]_vars
    /\ \A p \in Procs : WF_vars(Generate(p))
    /\ WF_vars(StartupRead)

\* C26: an invocation of generateMonthlyBillingPDF that passed the guard
\* leaves the body, whatever its outcome, with billingGenerationInProgress
\* reset to false.
C26_FlagIsEventuallyReset ==
    \A p \in Procs :
       (pc[p] \in BodyPcs) ~> (pc[p] \notin BodyPcs /\ ~billingGenerationInProgress)

\* a run that failed has ended and the flag is down again
C26_Witness ==
    /\ hist.failed # {}
    /\ ~billingGenerationInProgress
    /\ \A p \in Procs : pc[p] \notin BodyPcs

\* the flag is up only while some invocation is in the body
FlagOnlyInsideBody ==
    billingGenerationInProgress <=> \E p \in Procs : pc[p] \in BodyPcs

\* C27: a monthly run works from the one Summary it took at its start: while
\* the member loop runs, the members written or failed so far and the members
\* still to do are exactly the snapshot's, none twice, whatever has been
\* published since, and a successful run has written the overview and one
\* artifact for each member of that snapshot.
C27_RunUsesOneSnapshot ==
    \A p \in Procs :
       /\ pc[p] = "g_members" =>
             /\ (loc[p].attempted \ {"overview"}) \cup loc[p].todo
                   = DOMAIN loc[p].snap.Members
             /\ loc[p].attempted \cap loc[p].todo = {}
       /\ (pc[p] \in BodyPcs /\ loc[p].success) =>
             loc[p].written = ArtifactsOf(loc[p].snap)

\* a run succeeds on its two-member snapshot after a refresh has published a
\* one-member summary during the run
C27_Witness ==
    \E p \in Procs :
       /\ pc[p] = "g_defer"
       /\ loc[p].success
       /\ loc[p].written = {"overview", "m1", "m2"}
       /\ store.Refresh > loc[p].snap.Refresh
       /\ DOMAIN store.Members = {"m1"}

\* positions at which a goroutine holds billingGenMutex: between Lock and
\* Unlock around the two flags
MutexPcs == {"g_guard", "g_defer", "s_read"}

\* C25: billingGenMutex is held only around the reads and updates of
\* lastGeneratedBillingMonth and billingGenerationInProgress: whoever holds it
\* is at one of those positions, never creating the directory, taking the
\* snapshot, computing SLA or writing artifacts, so a trigger waiting for the
\* mutex never waits for a running generation to finish.
C25_MutexOnlyAroundFlags ==
    \A p \in Procs : billingGenMutex = p => pc[p] \in MutexPcs

\* a trigger holds the mutex while the other goroutine's run computes or writes
C25_Witness ==
    \E p, q \in Procs :
       /\ p # q
       /\ pc[p] \in {"g_sla", "g_overview", "g_members"}
       /\ billingGenMutex = q
       /\ pc[q] \in {"g_guard", "s_read"}

\* the artifacts in month mo's directory
FilesOf(mo) == { f[2] : f \in { g \in files : g[1] = mo } }

\* C23: when a run ends in success, its month's directory holds the overview
\* and one artifact for each member of the run's snapshot, and nothing else,
\* whatever earlier failed runs for the month wrote.
C23_RetryLeavesCleanArtifactSet ==
    [][ \A p \in Procs :
          (pc[p] = "g_defer" /\ pc'[p] # "g_defer" /\ loc[p].success) =>
             FilesOf(loc[p].billingMonth) = ArtifactsOf(loc[p].snap) ]_vars

\* a successful run's artifacts are all in its month's directory
SuccessWroteItsArtifacts ==
    \A p \in Procs :
       (pc[p] = "g_defer" /\ loc[p].success) =>
          ArtifactsOf(loc[p].snap) \subseteq FilesOf(loc[p].billingMonth)

\* C5: after the monthly loop fired on the 1st of month N, its next wake
\* target is 00:05 on the 1st of month N+1.
C5_NextTargetIsNextMonth ==
    pc["monthly"] = "m_sleep" =>
       \A f \in hist.fired :
          f.d = 1 => nextMonth = [mi |-> f.mi + 1, d |-> 1, t |-> 1]

\* C6: once a run for month M has failed, the next trigger that computes a
\* target month targets a month whose run failed.
C6_NextTriggerRetriesFailedMonth ==
    \A p \in Procs :
       (pc[p] = "g_lock" /\ hist.failed # {}) => loc[p].billingMonth \in hist.failed

\* C7: on every date the target month of a generation call, of the startup
\* check and of the breakdown endpoint's default is the month before the
\* current one, and the month recorded as generated is never the current one.
C7_TargetIsPreviousMonth ==
    /\ \A p \in Procs :
          pc[p] \in GenPcs \ {"g_start"} => loc[p].billingMonth = loc[p].now.mi - 1
    /\ pc["startup"] \in {"s_lock", "s_read"} =>
          loc["startup"].lastMonthStart = loc["startup"].now.mi - 1
    /\ DefaultBreakdownMonth(now) = now.mi - 1
    /\ lastGeneratedBillingMonth < now.mi

(***************************************************************************)
(* The cost refresh on its own: Init's first refresh, then any number of   *)
(* refreshes, each against any configuration                               *)
(***************************************************************************)
SchedOff ==
    /\ now = [mi |-> 0, d |-> 1, t |-> 0]
    /\ pc = [p \in Procs |-> "off"]
    /\ SchedIdle

InitCost ==
    /\ lastConfig \in Configs
    /\ store = Publish(computeCosts(lastConfig), 1)
    /\ SchedOff
    /\ RefOff
    /\ BootOff

RefreshAny ==
    /\ \E c \in Configs : Refresh(c) /\ lastConfig' = c
    /\ UNCHANGED schedVars
    /\ UNCHANGED <<refVars, slaVars, bootVars>>

NextCost == RefreshAny

SpecCost == InitCost /\ [][NextCost]_vars

Published == [Members |-> store.Members, Services |-> store.Services]

\* member m's region has a price sheet
Priced(c, m) == Norm(c.Members[m].Region) \in DOMAIN priceByRegion(c)

\* name x is a service of the configuration, and the service is active
Billable(c, x) ==
    Norm(x) \in { Norm(n) : n \in DOMAIN c.Services }
       /\ \E n \in DOMAIN c.Services : Norm(n) = Norm(x) /\ c.Services[n].Active = 1

\* the service names member m is assigned, group after group
Assigned(c, m) == Flatten(c.Members[m].ServiceAssignments)

\* configuration c with member m taken out
WithoutMember(c, m) ==
    [Members |-> [k \in (DOMAIN c.Members) \ {m} |-> c.Members[k]],
     Services |-> c.Services, Pricing |-> c.Pricing]

\* configuration c with the unknown and inactive services taken out of member
\* m's assignment groups
WithoutSkippedPairs(c, m) ==
    LET groups == c.Members[m].ServiceAssignments
        kept == [i \in DOMAIN groups |-> SelectSeq(groups[i], LAMBDA x : Billable(c, x))]
    IN [Members |-> [k \in DOMAIN c.Members |->
                        IF k = m THEN [Region |-> c.Members[m].Region,
                                       ServiceAssignments |-> kept]
                        ELSE c.Members[k]],
        Services |-> c.Services, Pricing |-> c.Pricing]

\* C18: a member whose region has no price sheet, and an assignment of an
\* unknown or inactive service, are passed over: what is published is what the
\* configuration without that member, or without those assignments, gives, and
\* a member with no price sheet or with nothing but skipped services is not
\* in the published Members map.
C18_SkippedLeavesOthersAlone ==
    \A m \in DOMAIN lastConfig.Members :
       /\ ~Priced(lastConfig, m) =>
             /\ Published = computeCosts(WithoutMember(lastConfig, m))
             /\ m \notin DOMAIN store.Members
       /\ Published = computeCosts(WithoutSkippedPairs(lastConfig, m))
       /\ (\A i \in DOMAIN Assigned(lastConfig, m) :
              ~Billable(lastConfig, Assigned(lastConfig, m)[i]))
             => m \notin DOMAIN store.Members

\* m1's region has no price sheet, m2 is assigned an unknown service beside
\* one that costs, and m2 alone is published
C18_Witness ==
    /\ store.Refresh >= 2
    /\ DOMAIN lastConfig.Members = {"m1", "m2"}
    /\ ~Priced(lastConfig, "m1")
    /\ Assigned(lastConfig, "m1") # << >>
    /\ \E i \in DOMAIN Assigned(lastConfig, "m2") :
          ~Billable(lastConfig, Assigned(lastConfig, "m2")[i])
    /\ DOMAIN store.Members = {"m2"}
    /\ store.Members["m2"].Total > 0

\* how many of the names in seq are spellings of service k
Count(seq, k) == Cardinality({ i \in DOMAIN seq : Norm(seq[i]) = k })

\* the cost published for member m and service k in the member-indexed map,
\* over the spellings of k the map has as keys
PairCostInMembers(m, k) ==
    IF m \notin DOMAIN store.Members THEN 0
    ELSE LET sc == store.Members[m].ServiceCosts
         IN SumOver(sc, { x \in DOMAIN sc : Norm(x) = k })

\* the same, read off the service-indexed map
PairCostInServices(m, k) ==
    LET keys == { x \in DOMAIN store.Services :
                     Norm(x) = k /\ m \in DOMAIN store.Services[x].MemberCosts }
    IN SumOver([x \in keys |-> store.Services[x].MemberCosts[m]], keys)

\* C19: a member assigned an active service n times, through whatever
\* groups, is published with n times the cost of one instance for that pair,
\* in the member-indexed and in the service-indexed map.
C19_AssignmentsAddUp ==
    \A m \in DOMAIN lastConfig.Members :
       Priced(lastConfig, m) =>
          \A n \in DOMAIN lastConfig.Services :
             lastConfig.Services[n].Active = 1 =>
                LET price == lastConfig.Pricing[
                                CHOOSE r \in DOMAIN lastConfig.Pricing :
                                   Norm(r) = Norm(lastConfig.Members[m].Region)]
                    cost == costForServiceInstance(lastConfig.Services[n].Resources, price)
                    times == Count(Assigned(lastConfig, m), Norm(n))
                IN /\ PairCostInServices(m, Norm(n)) = times * cost
                   /\ m \in DOMAIN store.Members =>
                         PairCostInMembers(m, Norm(n)) = times * cost

\* a member holds s1 in two of its groups and is published with twice the
\* cost of one instance, in both maps
C19_Witness ==
    /\ store.Refresh >= 2
    /\ \E m \in DOMAIN lastConfig.Members :
          /\ Len(lastConfig.Members[m].ServiceAssignments) = 2
          /\ Count(Assigned(lastConfig, m), "s1") = 2
          /\ m \in DOMAIN store.Members
          /\ "s1" \in DOMAIN store.Members[m].ServiceCosts
          /\ store.Members[m].ServiceCosts["s1"] > 0
          /\ store.Members[m].ServiceCosts["s1"]
                = 2 * costForServiceInstance(lastConfig.Services["s1"].Resources,
                                             PricedSheet)
          /\ store.Services["s1"].MemberCosts[m] = store.Members[m].ServiceCosts["s1"]

\* C20: the Services map is the transpose of the Members map: a service
\* holds a cost for a member exactly when the member holds that cost for the
\* service; so a member that is not published is in no service's MemberCosts
\* and every service listed has a published member.
C20_ServicesIsTransposeOfMembers ==
    /\ \A x \in DOMAIN store.Services :
          /\ store.Services[x].MemberCosts # EmptyMap
          /\ \A m \in DOMAIN store.Services[x].MemberCosts :
                /\ m \in DOMAIN store.Members
                /\ x \in DOMAIN store.Members[m].ServiceCosts
                /\ store.Members[m].ServiceCosts[x] = store.Services[x].MemberCosts[m]
    /\ \A m \in DOMAIN store.Members :
          \A x \in DOMAIN store.Members[m].ServiceCosts :
             /\ x \in DOMAIN store.Services
             /\ m \in DOMAIN store.Services[x].MemberCosts
             /\ store.Services[x].MemberCosts[m] = store.Members[m].ServiceCosts[x]

\* from the member-indexed map to the service-indexed one the transpose holds
MembersAreInServices ==
    \A m \in DOMAIN store.Members :
       \A x \in DOMAIN store.Members[m].ServiceCosts :
          /\ x \in DOMAIN store.Services
          /\ m \in DOMAIN store.Services[x].MemberCosts
          /\ store.Services[x].MemberCosts[m] = store.Members[m].ServiceCosts[x]

(***************************************************************************)
(* The store at the level of map references: GetSummary's copy loops and   *)
(* refresh's publish run concurrently, and callers write to what they got  *)
(***************************************************************************)
\* the goroutines calling GetSummary: sharing is a matter of two callers
Readers == {1, 2}

MaxWrites == 1          \* writes to the Summary values in callers' hands

\* a map object is named by who made it, in which call, and for what
Addr(kind, n, part, name) == <<kind, n, part, name>>

NilAddr == Addr("nil", 0, "", "")

Merge(h1, h2) ==
    [a \in (DOMAIN h1) \cup (DOMAIN h2) |-> IF a \in DOMAIN h2 THEN h2[a] ELSE h1[a]]

\* the maps refresh number k makes: newMemberCosts, newServiceCosts and the
\* inner map of each of their entries
newMaps(k, maps) ==
    LET M == Addr("w", k, "M", "")
        S == Addr("w", k, "S", "")
        outerM == [m \in DOMAIN maps.Members |->
                     [MemberName   |-> maps.Members[m].MemberName,
                      ServiceCosts |-> Addr("w", k, "m", m),
                      Total        |-> maps.Members[m].Total]]
        outerS == [x \in DOMAIN maps.Services |->
                     [ServiceName |-> maps.Services[x].ServiceName,
                      MemberCosts |-> Addr("w", k, "s", x),
                      Total       |-> maps.Services[x].Total]]
        innerM == [a \in { Addr("w", k, "m", m) : m \in DOMAIN maps.Members } |->
                     maps.Members[a[4]].ServiceCosts]
        innerS == [a \in { Addr("w", k, "s", x) : x \in DOMAIN maps.Services } |->
                     maps.Services[a[4]].MemberCosts]
    IN Merge(Merge(Put(Put(EmptyMap, M, outerM), S, outerS), innerM), innerS)

\* the map objects a Summary value leads to
Reach(h, sum) ==
    LET M == IF sum.Members \in DOMAIN h THEN {sum.Members} ELSE {}
        S == IF sum.Services \in DOMAIN h THEN {sum.Services} ELSE {}
    IN M \cup S
         \cup UNION { { h[a][m].ServiceCosts : m \in DOMAIN h[a] } : a \in M }
         \cup UNION { { h[a][x].MemberCosts : x \in DOMAIN h[a] } : a \in S }

\* what a Summary value reads as, following its references
Deep(h, sum) ==
    [Members  |-> [m \in DOMAIN h[sum.Members] |->
                     [MemberName   |-> h[sum.Members][m].MemberName,
                      ServiceCosts |-> h[h[sum.Members][m].ServiceCosts],
                      Total        |-> h[sum.Members][m].Total]],
     Services |-> [x \in DOMAIN h[sum.Services] |->
                     [ServiceName |-> h[sum.Services][x].ServiceName,
                      MemberCosts |-> h[h[sum.Services][x].MemberCosts],
                      Total       |-> h[sum.Services][x].Total]],
     Refresh  |-> sum.Refresh]

NilSummary == [Members |-> NilAddr, Services |-> NilAddr, Refresh |-> 0]

\* the garbage collector: map objects nobody can reach are gone
Collect(h, b, w, r) ==
    LET live == Reach(h, b) \cup Reach(h, w)
                   \cup UNION { Reach(h, r[x].ret) : x \in DOMAIN r }
    IN [a \in (DOMAIN h) \cap live |-> h[a]]

\* ---- refresh, as the hourly goroutine runs it ----
\* refresh's body up to the publish: the new maps exist, nobody else sees them
refresh_compute ==
    /\ wstate.pc = "w_idle"
    /\ wstate.Refresh < MaxRefresh
    /\ \E c \in SchedConfigs :
          LET k == wstate.Refresh + 1
              maps == computeCosts(c)
          IN /\ heap' = Merge(heap, newMaps(k, maps))
             /\ wstate' = [pc |-> "w_lock", Members |-> Addr("w", k, "M", ""),
                           Services |-> Addr("w", k, "S", ""), Refresh |-> k]
             /\ pubs' = Put(pubs, k, Publish(maps, k))
    /\ UNCHANGED <<bstore, rw, rstate>>

\* billingStore.Lock() returns once no reader and no writer holds the lock
CanLock == ~rw.writer /\ rw.readers = {}

refresh_Lock ==
    /\ wstate.pc = "w_lock"
    /\ CanLock
    /\ rw' = [rw EXCEPT !.writer = TRUE]
    /\ wstate' = [wstate EXCEPT !.pc = "w_members"]
    /\ UNCHANGED <<heap, bstore, rstate, pubs>>

refresh_setMembers ==
    /\ wstate.pc = "w_members"
    /\ bstore' = [bstore EXCEPT !.Members = wstate.Members]
    /\ wstate' = [wstate EXCEPT !.pc = "w_services"]
    /\ heap' = Collect(heap, bstore', wstate', rstate)
    /\ UNCHANGED <<rw, rstate, pubs>>

refresh_setServices ==
    /\ wstate.pc = "w_services"
    /\ bstore' = [bstore EXCEPT !.Services = wstate.Services]
    /\ wstate' = [wstate EXCEPT !.pc = "w_refresh"]
    /\ heap' = Collect(heap, bstore', wstate', rstate)
    /\ UNCHANGED <<rw, rstate, pubs>>

refresh_setRefresh ==
    /\ wstate.pc = "w_refresh"
    /\ bstore' = [bstore EXCEPT !.Refresh = wstate.Refresh]
    /\ wstate' = [wstate EXCEPT !.pc = "w_unlock"]
    /\ UNCHANGED <<heap, rw, rstate, pubs>>

refresh_Unlock ==
    /\ wstate.pc = "w_unlock"
    /\ rw' = [rw EXCEPT !.writer = FALSE]
    /\ wstate' = [pc |-> "w_idle", Members |-> NilAddr, Services |-> NilAddr,
                  Refresh |-> wstate.Refresh]
    /\ UNCHANGED <<heap, bstore, rstate, pubs>>

\* ---- GetSummary, as any goroutine r runs it ----
\* a reader waits as if the writer's lock were not there
CanRLock_ignoreWriter(r) == TRUE

\* billingStore.RLock() returns once no writer holds the lock
CanRLock(r) == ~rw.writer

GetSummary_RLock(r) ==
    /\ rstate[r].pc = "idle"
    /\ CanRLock(r)
    /\ rw' = [rw EXCEPT !.readers = @ \cup {r}]
    /\ rstate' = [rstate EXCEPT ![r].pc = "r_members"]
    /\ UNCHANGED <<heap, bstore, wstate, pubs>>

\* the inner map the copy's entry refers to is the stored entry's own map
svcCopy_shared(r, k, v) == v.ServiceCosts

\* svcCopy := make(map[string]float64, ...): a map of r's own for entry k
svcCopy(r, k, v) == Addr("r", r, "m", k)

\* memCopy := make(map[string]float64, ...)
memCopy(r, k, v) == Addr("r", r, "s", k)

GetSummary_copyMembers(r) ==
    /\ rstate[r].pc = "r_members"
    /\ LET src == heap[bstore.Members]
           mCopy == [k \in DOMAIN src |->
                       [MemberName   |-> src[k].MemberName,
                        ServiceCosts |-> svcCopy(r, k, src[k]),
                        Total        |-> src[k].Total]]
           inner == [a \in { mCopy[k].ServiceCosts : k \in DOMAIN src } |->
                       LET k == CHOOSE k \in DOMAIN src : mCopy[k].ServiceCosts = a
                       IN heap[src[k].ServiceCosts]]
       IN /\ heap' = Merge(Merge(heap, inner), Put(EmptyMap, Addr("r", r, "M", ""), mCopy))
          /\ rstate' = [rstate EXCEPT ![r].pc = "r_services",
                                      ![r].ret.Members = Addr("r", r, "M", "")]
    /\ UNCHANGED <<bstore, rw, wstate, pubs>>

GetSummary_copyServices(r) ==
    /\ rstate[r].pc = "r_services"
    /\ LET src == heap[bstore.Services]
           sCopy == [k \in DOMAIN src |->
                       [ServiceName |-> src[k].ServiceName,
                        MemberCosts |-> memCopy(r, k, src[k]),
                        Total       |-> src[k].Total]]
           inner == [a \in { sCopy[k].MemberCosts : k \in DOMAIN src } |->
                       LET k == CHOOSE k \in DOMAIN src : sCopy[k].MemberCosts = a
                       IN heap[src[k].MemberCosts]]
       IN /\ heap' = Merge(Merge(heap, inner), Put(EmptyMap, Addr("r", r, "S", ""), sCopy))
          /\ rstate' = [rstate EXCEPT ![r].pc = "r_return",
                                      ![r].ret.Services = Addr("r", r, "S", "")]
    /\ UNCHANGED <<bstore, rw, wstate, pubs>>

\* return Summary{..., Refresh: billingStore.Refresh}, then the deferred RUnlock
GetSummary_return(r) ==
    /\ rstate[r].pc = "r_return"
    /\ rstate' = [rstate EXCEPT ![r].pc = "have",
                                ![r].ret.Refresh = bstore.Refresh]
    /\ rw' = [rw EXCEPT !.readers = @ \ {r}]
    /\ UNCHANGED <<heap, bstore, wstate, pubs>>

\* ---- what a caller may do with the Summary it got ----
\* it writes to one of the maps: deletes an entry of an outer map, or stores
\* a number in an inner map
Mutate(r) ==
    /\ rstate[r].pc = "have"
    /\ SumOver([q \in Readers |-> rstate[q].writes], Readers) < MaxWrites
    /\ \E a \in Reach(heap, rstate[r].ret) :
          \/ /\ a[3] \in {"M", "S"}
             /\ \E k \in DOMAIN heap[a] :
                   \E h \in {[heap EXCEPT ![a] = [x \in (DOMAIN heap[a]) \ {k} |-> heap[a][x]]]} :
                      heap' = Collect(h, bstore, wstate, rstate)
          \/ /\ a[3] \in {"m", "s"}
             /\ \E k \in (DOMAIN heap[a]) \cup {"other"} :
                   heap' = [heap EXCEPT ![a] = Put(@, k, 99)]
    /\ rstate' = [rstate EXCEPT ![r].writes = @ + 1]
    /\ UNCHANGED <<bstore, rw, wstate, pubs>>

\* the caller lets go of the Summary
Drop(r) ==
    /\ rstate[r].pc = "have"
    /\ rstate' = [rstate EXCEPT ![r] = [pc |-> "idle", ret |-> NilSummary,
                                        writes |-> 0]]
    /\ heap' = Collect(heap, bstore, wstate, rstate')
    /\ UNCHANGED <<bstore, rw, wstate, pubs>>

\* billing.Init has run its first refresh; no goroutine is in a call
InitStore ==
    /\ \E c \in SchedConfigs :
          /\ heap = newMaps(1, computeCosts(c))
          /\ pubs = Put(EmptyMap, 1, Publish(computeCosts(c), 1))
    /\ bstore = [Members |-> Addr("w", 1, "M", ""), Services |-> Addr("w", 1, "S", ""),
                 Refresh |-> 1]
    /\ rw = [writer |-> FALSE, readers |-> {}]
    /\ wstate = [pc |-> "w_idle", Members |-> NilAddr, Services |-> NilAddr,
                 Refresh |-> 1]
    /\ rstate = [r \in Readers |-> [pc |-> "idle", ret |-> NilSummary,
                                    writes |-> 0]]
    /\ store = EmptySummary
    /\ SchedOff
    /\ SlaOff
    /\ CostOff
    /\ BootOff

NextStore ==
    \/ /\ \/ refresh_compute
          \/ refresh_Lock
          \/ refresh_setMembers
          \/ refresh_setServices
          \/ refresh_setRefresh
          \/ refresh_Unlock
       /\ UNCHANGED <<store, schedVars, slaVars, costVars, bootVars>>
    \/ \E r \in Readers :
          /\ \/ GetSummary_RLock(r)
             \/ GetSummary_copyMembers(r)
             \/ GetSummary_copyServices(r)
             \/ GetSummary_return(r)
             \/ Mutate(r)
             \/ Drop(r)
          /\ UNCHANGED <<store, schedVars, slaVars, costVars, bootVars>>

SpecStore == InitStore /\ [][NextStore]_vars

\* C8: a Summary as GetSummary returned it is, maps and stamp together, the
\* snapshot of one publish.
C8_SummaryIsOnePublish ==
    \A r \in Readers :
       (rstate[r].pc = "have" /\ rstate[r].writes = 0) =>
          /\ rstate[r].ret.Refresh \in DOMAIN pubs
          /\ Deep(heap, rstate[r].ret) = pubs[rstate[r].ret.Refresh]

\* a call that copied both maps while a refresh was waiting to publish has
\* returned the older snapshot, and the refresh has published since
C8_Witness ==
    \E r \in Readers :
       /\ rstate[r].pc = "have"
       /\ rstate[r].writes = 0
       /\ rstate[r].ret.Refresh < bstore.Refresh
       /\ pubs[rstate[r].ret.Refresh].Members # pubs[bstore.Refresh].Members

\* the map objects of two Summary values are different objects
Disjoint(a, b) == Reach(heap, a) \cap Reach(heap, b) = {}

\* C9: a returned Summary shares no map with the store, with a refresh under
\* way or with another returned Summary; whatever callers write, the stored
\* snapshot and the other callers' copies read as they were published; and a
\* step never changes a map the store holds.
C9_CopiesShareNothing ==
    /\ [](\A r \in Readers :
            /\ Disjoint(rstate[r].ret, bstore)
            /\ Disjoint(rstate[r].ret, wstate)
            /\ \A q \in Readers \ {r} : Disjoint(rstate[r].ret, rstate[q].ret))
    /\ [](~rw.writer => Deep(heap, bstore) = pubs[bstore.Refresh])
    /\ [][\A a \in Reach(heap, bstore) \cap Reach(heap', bstore') :
             heap'[a] = heap[a]]_vars

\* one caller has written to its copy while another holds an untouched copy
\* of the same snapshot, which is still the stored one
C9_Witness ==
    \E r \in Readers : \E q \in Readers \ {r} :
       /\ rstate[r].pc = "have" /\ rstate[r].writes > 0
       /\ rstate[q].pc = "have" /\ rstate[q].writes = 0
       /\ rstate[r].ret.Refresh = bstore.Refresh
       /\ rstate[q].ret.Refresh = bstore.Refresh
       /\ Deep(heap, rstate[r].ret) # Deep(heap, rstate[q].ret)

(***************************************************************************)
(* SLA: downtime of a (member, service) pair from table member_events.     *)
(* Time is counted in ticks; the month is [startTime, startTime+MonthLen)  *)
(***************************************************************************)
MaxTime == 4            \* event times run over 0..MaxTime
MaxEvents == 2          \* rows in member_events

MonthLen == MaxTime - 1
startTime == 1
\* startTime.AddDate(0, 1, 0).Add(-time.Nanosecond): the month's last instant
endTime == startTime + MonthLen - 1

\* a nullable column: the empty tuple is NULL
NULL == << >>

IsNull(x) == x = NULL

Val(x) == x[1]

Min(a, b) == IF a < b THEN a ELSE b

Max(a, b) == IF a > b THEN a ELSE b

\* strings.ToLower on the host names in use
ToLower(x) == IF x = "D1" THEN "d1" ELSE x

\* extractDomainFromURL: protocol, port and path go, the host is lower-cased
extractDomainFromURL(url) == ToLower(url.host)

\* c.Services: each service's providers' RPC URLs
SlaServices ==
    [x \in {"s1", "s2"} |->
        IF x = "s1"
        THEN << [proto |-> "wss://", host |-> "D1", rest |-> "/ws"] >>
        ELSE << [proto |-> "https://", host |-> "d2", rest |-> ":443"] >>]

serviceToDomains ==
    [x \in DOMAIN SlaServices |->
        { extractDomainFromURL(SlaServices[x][i]) : i \in DOMAIN SlaServices[x] }]

\* the rows that may be in the table
Intervals ==
    { [start_time |-> a, end_time |-> e] :
         a \in 0 .. (MaxTime - 1), e \in {NULL} \cup { <<b>> : b \in 1 .. MaxTime } }

EventPool ==
    { [member_name |-> "m1", status |-> 0, check_type |-> k[1], domain_name |-> k[2],
       start_time |-> i.start_time, end_time |-> i.end_time] :
         k \in { <<"1", "">>, <<"site", "">>, <<"2", "d1">>, <<"domain", "d1">>,
                 <<"3", "d2">> },
         i \in { x \in Intervals : IsNull(x.end_time) \/ Val(x.end_time) > x.start_time } }

\* the tables of at most n rows
RECURSIVE Tables(_)
Tables(n) ==
    IF n = 0 THEN {{}}
    ELSE LET T == Tables(n - 1)
         IN T \cup { S \cup {e} : S \in T, e \in EventPool }

\* MySQL comparing the string column check_type with a number: the string is
\* read as a number, and a string that is no number reads as 0
AsNumber(str) ==
    CASE str = "1" -> 1
      [] str = "2" -> 2
      [] str = "3" -> 3
      [] OTHER -> 0

\* every event that starts before the period's end is kept, whatever its end
InPeriod_anyEnd(e, from, to) == e.start_time < to

\* both queries' condition on the event's times
InPeriod(e, from, to) ==
    \/ e.start_time < to /\ (IsNull(e.end_time) \/ Val(e.end_time) > from)
    \/ e.start_time >= from /\ e.start_time < to

siteQuery(rows, memberName, from, to) ==
    { e \in rows : /\ e.member_name = memberName
                   /\ AsNumber(e.check_type) = 1
                   /\ e.status = 0
                   /\ InPeriod(e, from, to) }

serviceQuery(rows, memberName, domains, from, to) ==
    { e \in rows : /\ e.member_name = memberName
                   /\ AsNumber(e.check_type) \in {2, 3}
                   /\ e.status = 0
                   /\ e.domain_name \in domains
                   /\ InPeriod(e, from, to) }

\* the event's own times are taken, an open event ending after the last time
downtimePeriod_unclamped(e, from, to) ==
    [start |-> e.start_time,
     end   |-> IF IsNull(e.end_time) THEN MaxTime + 1 ELSE Val(e.end_time)]

\* "Adjust times to month boundaries"
downtimePeriod(e, from, to) ==
    [start |-> IF e.start_time < from THEN from ELSE e.start_time,
     end   |-> IF ~IsNull(e.end_time) /\ Val(e.end_time) < to
               THEN Val(e.end_time) ELSE to]

\* the orders in which a query may return a set of rows
Orders(S) ==
    { q \in [1 .. Cardinality(S) -> S] : \A i, j \in DOMAIN q : i # j => q[i] # q[j] }

Swap(p, i, j) == [p EXCEPT ![i] = p[j], ![j] = p[i]]

\* the periods are left in the order they came in
sortFrom_none(p, i, j) == p

\* a fused period always takes the later-starting period's end
RECURSIVE foldFrom_overwrite(_, _, _)
foldFrom_overwrite(merged, p, i) ==
    IF i > Len(p) THEN merged
    ELSE LET n == Len(merged)
         IN IF p[i].start <= merged[n].end
            THEN foldFrom_overwrite([merged EXCEPT ![n].end = p[i].end], p, i + 1)
            ELSE foldFrom_overwrite(Append(merged, p[i]), p, i + 1)

\* mergeOverlappingPeriods' sort: for i, for j > i, exchange when p[j] starts
\* before p[i]
RECURSIVE sortFrom(_, _, _)
sortFrom(p, i, j) ==
    IF i > Len(p) - 1 THEN p
    ELSE IF j > Len(p) THEN sortFrom(p, i + 1, i + 2)
    ELSE sortFrom(IF p[j].start < p[i].start THEN Swap(p, i, j) ELSE p, i, j + 1)

\* mergeOverlappingPeriods' fold over the sorted periods
RECURSIVE foldFrom(_, _, _)
foldFrom(merged, p, i) ==
    IF i > Len(p) THEN merged
    ELSE LET n == Len(merged)
             last == merged[n]
             current == p[i]
         IN IF current.start <= last.end
            THEN foldFrom(IF current.end > last.end
                          THEN [merged EXCEPT ![n].end = current.end]
                          ELSE merged, p, i + 1)
            ELSE foldFrom(Append(merged, current), p, i + 1)

mergeOverlappingPeriods(periods) ==
    IF Len(periods) <= 1 THEN periods
    ELSE LET p == sortFrom(periods, 1, 2)
         IN foldFrom(<<p[1]>>, p, 2)

\* calculateServiceDowntime's allPeriods: the site rows' periods, coming back
\* in order siteRows, then the service rows' periods, in order svcRows
allPeriods(siteRows, svcRows, domains, from, to) ==
    LET site == [i \in DOMAIN siteRows |-> downtimePeriod(siteRows[i], from, to)]
        svc  == IF domains # {}
                THEN [i \in DOMAIN svcRows |-> downtimePeriod(svcRows[i], from, to)]
                ELSE << >>
    IN site \o svc

\* billing.calculateServiceDowntime
calculateServiceDowntime(siteRows, svcRows, domains, from, to) ==
    LET periods == allPeriods(siteRows, svcRows, domains, from, to)
        merged == mergeOverlappingPeriods(periods)
    IN IF Len(periods) = 0 THEN 0
       ELSE SumOver([i \in DOMAIN merged |-> merged[i].end - merged[i].start],
                    DOMAIN merged)

\* api.mapDomainToService: the service one of whose RPC URLs holds the domain
mapDomainToService(domain, checkType) ==
    IF checkType = "site" \/ domain = "" THEN {}
    ELSE { x \in DOMAIN SlaServices :
              \E i \in DOMAIN SlaServices[x] : ToLower(SlaServices[x][i].host) = ToLower(domain) }

\* the api package's query: every downtime row that touches the month, an
\* open row ending at NOW()
apiQuery(rows, from, to, nowT) ==
    { [member_name |-> e.member_name, check_type |-> e.check_type,
       domain_name |-> e.domain_name, start_time |-> e.start_time,
       calc_end_time |-> IF IsNull(e.end_time) THEN nowT ELSE Val(e.end_time)] :
         e \in { x \in rows : /\ x.status = 0
                              /\ x.start_time < to
                              /\ (IsNull(x.end_time) \/ Val(x.end_time) > from) } }

\* the hours the api package adds for one row
downtimeHours(r, from, to) ==
    Min(r.calc_end_time, to) - Max(r.start_time, from)

\* api.CalculateSLAAdjustments' HoursDown for member memberID and service svcKey
apiHoursDown(rows, memberID, svcKey, from, to, nowT) ==
    LET mine == { r \in apiQuery(rows, from, to, nowT) : r.member_name = memberID }
        site == { r \in mine : r.check_type = "site" }
        svc  == { r \in mine \ site :
                     svcKey \in mapDomainToService(r.domain_name, r.check_type) }
        hours == [r \in mine |-> downtimeHours(r, from, to)]
        downtime == SumOver(hours, site) + SumOver(hours, svc)
        totalHours == to - from
    IN IF downtime > totalHours THEN totalHours ELSE downtime

RECURSIVE GCD(_, _)
GCD(a, b) == IF b = 0 THEN a ELSE GCD(b, a % b)

\* a float64 amount is kept as the exact fraction n/d in lowest terms, d > 0
Frac(n, d) == LET g == GCD(n, d) IN [num |-> n \div g, den |-> d \div g]

Geq(a, b) == a.num * b.den >= b.num * a.den

Plus(a, b) ==
    LET l == a.den * (b.den \div GCD(a.den, b.den))
    IN Frac(a.num * (l \div a.den) + b.num * (l \div b.den), l)

Minus(a, b) == Plus(a, [num |-> 0 - b.num, den |-> b.den])

\* const DefaultSLAPercentage = 99.99
DefaultSLAPercentage == Frac(9999, 100)

\* the threshold itself does not pass
meetsSLA_strict(uptimePercent) == ~Geq(DefaultSLAPercentage, uptimePercent)

\* meetsSLA := uptimePercent >= DefaultSLAPercentage
meetsSLA(uptimePercent) == Geq(uptimePercent, DefaultSLAPercentage)

\* the SLABreakdown that CalculateSLAAdjustments builds from a pair's downtime
SLABreakdown(totalHours, downtime) ==
    LET uptime == IF totalHours - downtime < 0 THEN 0 ELSE totalHours - downtime
        uptimePercent == IF totalHours > 0
                         THEN Frac(uptime * 100, totalHours)
                         ELSE Frac(100, 1)
    IN [HoursTotal |-> totalHours,
        HoursDown  |-> downtime,
        HoursUp    |-> uptime,
        Uptime     |-> uptimePercent,
        MeetsSLA   |-> meetsSLA(uptimePercent)]

\* what billing.CalculateSLAAdjustments puts in out[m1][svcKey], with the
\* periods that calculateServiceDowntime collected on the way
billingBreakdown(svcKey, siteRows, svcRows) ==
    LET totalHours == endTime - startTime
        downtime == calculateServiceDowntime(siteRows, svcRows, serviceToDomains[svcKey],
                                             startTime, endTime)
        bd == SLABreakdown(totalHours, downtime)
    IN [svc |-> svcKey,
        periods |-> allPeriods(siteRows, svcRows, serviceToDomains[svcKey],
                               startTime, endTime),
        HoursTotal |-> bd.HoursTotal, HoursDown |-> bd.HoursDown, HoursUp |-> bd.HoursUp,
        Uptime |-> bd.Uptime, MeetsSLA |-> bd.MeetsSLA]

\* ---- the operations ----
\* billing.CalculateSLAAdjustments computes the pair (m1, svcKey)
CalculateSLAAdjustments ==
    \E svcKey \in DOMAIN SlaServices :
       \E siteRows \in Orders(siteQuery(events, "m1", startTime, endTime)) :
          \E svcRows \in Orders(serviceQuery(events, "m1", serviceToDomains[svcKey],
                                             startTime, endTime)) :
             /\ slaOut' = [fn |-> "billing", at |-> MaxTime,
                           bd |-> billingBreakdown(svcKey, siteRows, svcRows)]
             /\ UNCHANGED events

\* handleBillingSummary at time nowT of the month: nothing in the table lies
\* in the future, and the current month's SLA is computed
handleBillingSummary ==
    \E nowT \in startTime .. endTime :
       /\ \A e \in events : /\ e.start_time <= nowT
                            /\ IF IsNull(e.end_time) THEN TRUE
                               ELSE Val(e.end_time) <= nowT
       /\ \E svcKey \in DOMAIN SlaServices :
            \E siteRows \in Orders(siteQuery(events, "m1", startTime, endTime)) :
               \E svcRows \in Orders(serviceQuery(events, "m1", serviceToDomains[svcKey],
                                                  startTime, endTime)) :
                  slaOut' = [fn |-> "summary", at |-> nowT,
                             bd |-> billingBreakdown(svcKey, siteRows, svcRows)]
       /\ UNCHANGED events

\* api.CalculateSLAAdjustments computes the pair (m1, svcKey), after the month
api_CalculateSLAAdjustments ==
    \E svcKey \in DOMAIN SlaServices :
       /\ slaOut' = [fn |-> "api", at |-> MaxTime,
                     bd |-> [svc |-> svcKey,
                             HoursDown |-> apiHoursDown(events, "m1", svcKey,
                                                        startTime, endTime, MaxTime)]]
       /\ UNCHANGED events

\* the collator's periodic UPDATE of check_type
normalizeMemberEventCheckTypes ==
    /\ \E e \in events : e.check_type \in {"1", "2", "3"}
    /\ events' = { [e EXCEPT !.check_type =
                       CASE @ = "1" -> "site"
                         [] @ = "2" -> "domain"
                         [] @ = "3" -> "endpoint"
                         [] OTHER -> @] : e \in events }
    /\ slaOut' = [fn |-> "none"]

InitSLA ==
    /\ events \in Tables(MaxEvents)
    /\ slaOut = [fn |-> "none"]
    /\ store = EmptySummary
    /\ SchedOff
    /\ CostOff
    /\ BootOff
    /\ heap = EmptyMap
    /\ bstore = EmptySummary
    /\ rw = [writer |-> FALSE, readers |-> {}]
    /\ wstate = [pc |-> "off"]
    /\ rstate = EmptyMap
    /\ pubs = EmptyMap

NextSLA ==
    \/ CalculateSLAAdjustments /\ UNCHANGED <<store, schedVars, refVars, costVars, bootVars>>
    \/ handleBillingSummary /\ UNCHANGED <<store, schedVars, refVars, costVars, bootVars>>
    \/ api_CalculateSLAAdjustments /\ UNCHANGED <<store, schedVars, refVars, costVars, bootVars>>
    \/ normalizeMemberEventCheckTypes /\ UNCHANGED <<store, schedVars, refVars, costVars, bootVars>>

SpecSLA == InitSLA /\ [][NextSLA]_vars

\* the events that count for (m1, svc): the member's site events and the
\* events of the service's domains, clamped to the month
CountedPeriods(svc) ==
    { downtimePeriod(e, startTime, endTime) :
         e \in { x \in events :
                    /\ x.member_name = "m1" /\ x.status = 0
                    /\ x.start_time < endTime
                    /\ (IsNull(x.end_time) \/ Val(x.end_time) > startTime)
                    /\ \/ x.check_type \in {"1", "site"}
                       \/ /\ x.check_type \in {"2", "domain", "3", "endpoint"}
                          /\ x.domain_name \in serviceToDomains[svc] } }

\* the length of the union of a set of periods
UnionLength(P) ==
    Cardinality({ t \in 0 .. MaxTime : \E q \in P : q.start <= t /\ t < q.end })

\* C10: the HoursDown computed for a pair is the length of the union of the
\* clamped intervals of the member's site events and the service's events.
C10_HoursDownIsUnionLength ==
    slaOut.fn \in {"billing", "api"} =>
       slaOut.bd.HoursDown = UnionLength(CountedPeriods(slaOut.bd.svc))

\* billing.calculateServiceDowntime on rows whose check_type is stored as a
\* number does compute the length of the union
BillingNumericIsUnion ==
    (slaOut.fn = "billing" /\ \A e \in events : e.check_type \in {"1", "2", "3"})
       => slaOut.bd.HoursDown = UnionLength(CountedPeriods(slaOut.bd.svc))

\* the rows of the check types and domains that the two queries of (m1, svc)
\* look at, whatever their times
ClassRows(svc) ==
    { x \in events :
         /\ x.member_name = "m1" /\ x.status = 0
         /\ \/ AsNumber(x.check_type) = 1
            \/ /\ AsNumber(x.check_type) \in {2, 3}
               /\ x.domain_name \in serviceToDomains[svc] }

\* the rows that overlap the period
Overlapping(svc) ==
    { x \in ClassRows(svc) :
         x.start_time < endTime /\ (IsNull(x.end_time) \/ Val(x.end_time) > startTime) }

\* an event cut to the period
Clamped(x) ==
    [start |-> Max(x.start_time, startTime),
     end   |-> Min(IF IsNull(x.end_time) THEN endTime ELSE Val(x.end_time), endTime)]

ClampedAt(x, nowT) ==
    [start |-> Max(x.start_time, startTime),
     end   |-> Min(IF IsNull(x.end_time) THEN nowT ELSE Val(x.end_time), endTime)]

\* C14: when the SLA of the running month is computed at time nowT, an event
\* with no recorded end counts up to nowT only, so the downtime reported never
\* exceeds the time elapsed since the month began.
C14_OpenEventEndsAtEvaluationTime ==
    slaOut.fn = "summary" =>
       /\ \E q \in Orders(Overlapping(slaOut.bd.svc)) :
             slaOut.bd.periods = [i \in DOMAIN q |-> ClampedAt(q[i], slaOut.at)]
       /\ slaOut.bd.HoursDown <= slaOut.at - startTime

MaxDowntime == 45       \* downtime runs over 0..MaxDowntime units (0.36 h)

\* months of 0, 28, 30 and 31 days
TotalHours == {0, 672 * 125, 720 * 125, 744 * 125}

BaseCosts == {0, 1, 500}

InitBreakdown ==
    /\ slaOut \in { [fn |-> "input", totalHours |-> t, downtime |-> d, baseCost |-> c] :
                       t \in TotalHours, d \in 0 .. MaxDowntime, c \in BaseCosts }
    /\ slaOut.downtime <= slaOut.totalHours
    /\ events = {}
    /\ store = EmptySummary
    /\ SchedOff
    /\ CostOff
    /\ BootOff
    /\ heap = EmptyMap
    /\ bstore = EmptySummary
    /\ rw = [writer |-> FALSE, readers |-> {}]
    /\ wstate = [pc |-> "off"]
    /\ rstate = EmptyMap
    /\ pubs = EmptyMap

\* CalculateSLAAdjustments' breakdown of a pair whose downtime is known
breakdown_compute ==
    /\ slaOut.fn = "input"
    /\ slaOut' = [fn |-> "breakdown", baseCost |-> slaOut.baseCost,
                  bd |-> SLABreakdown(slaOut.totalHours, slaOut.downtime)]
    /\ UNCHANGED events

\* the percentage is not divided by 100
billedCost_timesPercent(baseCost, Uptime) == Frac(baseCost * Uptime.num, Uptime.den)

\* billedCost := baseCost * (breakdown.Uptime / 100.0)
billedCost(baseCost, Uptime) == Frac(baseCost * Uptime.num, Uptime.den * 100)

\* handleBillingBreakdown's line for one service of a member
handleBillingBreakdown ==
    /\ slaOut.fn = "breakdown"
    /\ LET billed == billedCost(slaOut.baseCost, slaOut.bd.Uptime)
           credits == Minus(Frac(slaOut.baseCost, 1), billed)
       IN slaOut' = [fn |-> "billed", BaseCost |-> slaOut.baseCost, bd |-> slaOut.bd,
                     Uptime |-> slaOut.bd.Uptime, BilledCost |-> billed,
                     Credits |-> credits, MeetsSLA |-> slaOut.bd.MeetsSLA]
    /\ UNCHANGED events

NextBreakdown ==
    \/ breakdown_compute /\ UNCHANGED <<store, schedVars, refVars, costVars, bootVars>>
    \/ handleBillingBreakdown /\ UNCHANGED <<store, schedVars, refVars, costVars, bootVars>>

SpecBreakdown == InitBreakdown /\ [][NextBreakdown]_vars

C17_BilledPlusCreditIsBase ==
    slaOut.fn = "billed" =>
       LET base == Frac(slaOut.BaseCost, 1)
           zero == Frac(0, 1)
       IN /\ slaOut.bd.HoursTotal > 0 =>
                slaOut.BilledCost =
                   Frac(slaOut.BaseCost * slaOut.bd.HoursUp, slaOut.bd.HoursTotal)
          /\ slaOut.Credits = Minus(base, slaOut.BilledCost)
          /\ Geq(slaOut.BilledCost, zero)
          /\ Geq(base, slaOut.BilledCost)
          /\ Geq(slaOut.Credits, zero)
          /\ Plus(slaOut.BilledCost, slaOut.Credits) = base
          /\ (slaOut.BaseCost = 500 /\ slaOut.Uptime = Frac(9995, 100)) =>
                /\ slaOut.BilledCost = Frac(49975, 100)
                /\ slaOut.Credits = Frac(25, 100)

C17_Witness ==
    /\ slaOut.fn = "billed"
    /\ slaOut.BaseCost = 500
    /\ slaOut.Uptime = Frac(9995, 100)
    /\ slaOut.BilledCost = Frac(49975, 100)
    /\ slaOut.Credits = Frac(25, 100)

(***************************************************************************)
(* mergeOverlappingPeriods on its own: any list of periods, merged, merged *)
(* again, and merged when given in another order                           *)
(***************************************************************************)
MaxLen == 3             \* periods in a list handed to mergeOverlappingPeriods
MaxPeriodTime == 3      \* the periods' times run over 0..MaxPeriodTime

\* a period may be empty (start = end) but does not end before it starts
PeriodPool ==
    { q \in [start : 0 .. MaxPeriodTime, end : 0 .. MaxPeriodTime] : q.start <= q.end }

\* the lists of at most n periods
RECURSIVE PeriodLists(_)
PeriodLists(n) ==
    IF n = 0 THEN {<< >>}
    ELSE LET L == PeriodLists(n - 1)
         IN L \cup { Append(l, q) : l \in L, q \in PeriodPool }

\* a caller holds a list of periods
InitMerge ==
    /\ slaOut \in { [fn |-> "periods", periods |-> l] : l \in PeriodLists(MaxLen) }
    /\ events = {}
    /\ store = EmptySummary
    /\ SchedOff
    /\ CostOff
    /\ BootOff
    /\ heap = EmptyMap
    /\ bstore = EmptySummary
    /\ rw = [writer |-> FALSE, readers |-> {}]
    /\ wstate = [pc |-> "off"]
    /\ rstate = EmptyMap
    /\ pubs = EmptyMap

\* merged := mergeOverlappingPeriods(allPeriods)
merge_call ==
    /\ slaOut.fn = "periods"
    /\ slaOut' = [fn |-> "merged", periods |-> slaOut.periods,
                  merged |-> mergeOverlappingPeriods(slaOut.periods)]
    /\ UNCHANGED events

\* the result is merged once more
merge_again ==
    /\ slaOut.fn = "merged"
    /\ slaOut' = [fn |-> "again", periods |-> slaOut.periods, merged |-> slaOut.merged,
                  again |-> mergeOverlappingPeriods(slaOut.merged)]
    /\ UNCHANGED events

\* the same periods are merged as the rows come back in another order
merge_reordered ==
    /\ slaOut.fn = "merged"
    /\ \E o \in Orders(DOMAIN slaOut.periods) :
          slaOut' = [fn |-> "reordered", periods |-> slaOut.periods,
                     merged |-> slaOut.merged, order |-> o,
                     other |-> mergeOverlappingPeriods(
                                  [i \in DOMAIN o |-> slaOut.periods[o[i]]])]
    /\ UNCHANGED events

NextMerge ==
    \/ merge_call /\ UNCHANGED <<store, schedVars, refVars, costVars, bootVars>>
    \/ merge_again /\ UNCHANGED <<store, schedVars, refVars, costVars, bootVars>>
    \/ merge_reordered /\ UNCHANGED <<store, schedVars, refVars, costVars, bootVars>>

SpecMerge == InitMerge /\ [][NextMerge]_vars

\* the instants a list of periods covers, each period taken as [start, end)
Covered(l) ==
    { t \in 0 .. MaxPeriodTime : \E i \in DOMAIN l : l[i].start <= t /\ t < l[i].end }

\* C11: the merged list is sorted by start, each of its periods starts
\* strictly after the one before it ends, and it covers exactly the instants
\* the input covers.
C11_MergedIsSortedDisjointUnion ==
    slaOut.fn = "merged" =>
       /\ \A i \in 1 .. (Len(slaOut.merged) - 1) :
             /\ slaOut.merged[i].start <= slaOut.merged[i + 1].start
             /\ slaOut.merged[i].end < slaOut.merged[i + 1].start
       /\ Covered(slaOut.merged) = Covered(slaOut.periods)
       /\ (slaOut.periods # << >> => slaOut.merged # << >>)

\* three periods given out of order, one touching and one inside another,
\* came out as one
C11_Witness ==
    /\ slaOut.fn = "merged"
    /\ Len(slaOut.periods) = 3
    /\ slaOut.periods[1].start > slaOut.periods[2].start
    /\ slaOut.periods[1].start = slaOut.periods[2].end
    /\ slaOut.periods[3].start > slaOut.periods[2].start
    /\ slaOut.periods[3].end < slaOut.periods[2].end
    /\ Len(slaOut.merged) = 1

\* C12: merging a merged list gives the same list, and merging the same
\* periods given in another order gives the same list.
C12_MergeIdempotentOrderFree ==
    /\ slaOut.fn = "again" => slaOut.again = slaOut.merged
    /\ slaOut.fn = "reordered" => slaOut.other = slaOut.merged

\* periods with equal starts and different ends were merged in two orders
C12_Witness ==
    /\ slaOut.fn = "reordered"
    /\ Len(slaOut.periods) = 3
    /\ slaOut.order = <<3, 1, 2>>
    /\ slaOut.periods[1].start = slaOut.periods[2].start
    /\ slaOut.periods[1].end < slaOut.periods[2].end
    /\ slaOut.periods[3].start > slaOut.periods[2].end

(***************************************************************************)
(* costForServiceInstance on its own: any resources, any price sheet       *)
(***************************************************************************)
MaxUnits == 2           \* resource amounts and unit prices run over 0..MaxUnits

InitInstance ==
    /\ slaOut \in { [fn |-> "resources", res |-> r, price |-> q] :
                       r \in [Nodes : 0 .. MaxUnits, Cores : 0 .. MaxUnits,
                              Memory : 0 .. MaxUnits, Disk : 0 .. MaxUnits,
                              Bandwidth : 0 .. MaxUnits],
                       q \in [Cores : 0 .. MaxUnits, Memory : 0 .. MaxUnits,
                              Disk : 0 .. MaxUnits, Bandwidth : 0 .. MaxUnits] }
    /\ events = {}
    /\ store = EmptySummary
    /\ SchedOff
    /\ CostOff
    /\ BootOff
    /\ heap = EmptyMap
    /\ bstore = EmptySummary
    /\ rw = [writer |-> FALSE, readers |-> {}]
    /\ wstate = [pc |-> "off"]
    /\ rstate = EmptyMap
    /\ pubs = EmptyMap

\* cost := costForServiceInstance(svc.Resources, price)
cost_call ==
    /\ slaOut.fn = "resources"
    /\ slaOut' = [fn |-> "cost", res |-> slaOut.res, price |-> slaOut.price,
                  cost |-> costForServiceInstance(slaOut.res, slaOut.price)]
    /\ UNCHANGED events

NextInstance == cost_call /\ UNCHANGED <<store, schedVars, refVars, costVars, bootVars>>

SpecInstance == InitInstance /\ [][NextInstance]_vars

\* C21: costForServiceInstance is nodes x (cores x price per core + memory x
\* price per GB + disk x price per GB + bandwidth x price per GB), and 0 for
\* no nodes.
C21_CostIsNodesTimesPerNode ==
    slaOut.fn = "cost" =>
       LET r == slaOut.res
           q == slaOut.price
       IN /\ slaOut.cost = r.Nodes * (r.Cores * q.Cores + r.Memory * q.Memory
                                      + r.Disk * q.Disk + r.Bandwidth * q.Bandwidth)
          /\ r.Nodes = 0 => slaOut.cost = 0

\* two nodes, every resource in use and priced
C21_Witness ==
    /\ slaOut.fn = "cost"
    /\ slaOut.res = [Nodes |-> 2, Cores |-> 2, Memory |-> 1, Disk |-> 1, Bandwidth |-> 1]
    /\ slaOut.price = [Cores |-> 2, Memory |-> 1, Disk |-> 2, Bandwidth |-> 1]
    /\ slaOut.cost = 16

(***************************************************************************)
(* The SLA computation when member_events cannot be read: data2.DB is nil, *)
(* or a query returns an error                                             *)
(***************************************************************************)
\* getSLABreakdown: the pair's breakdown, or the default when sla has none
getSLABreakdown(sla, member, service) ==
    IF member \in DOMAIN sla /\ service \in DOMAIN sla[member]
    THEN sla[member][service]
    ELSE [HoursTotal |-> 730, HoursDown |-> 0, HoursUp |-> 730,
          Uptime |-> Frac(100, 1), MeetsSLA |-> TRUE]

\* billing.CalculateSLAAdjustments for (m1, svcKey) when the site query, the
\* service query or both return an error: the failed query's rows are not
\* read, and the breakdown is built from the rest
CalculateSLAAdjustments_queryError ==
    \E svcKey \in DOMAIN SlaServices, siteErr \in BOOLEAN, svcErr \in BOOLEAN :
       /\ siteErr \/ svcErr
       /\ \E siteRows \in IF siteErr THEN {<< >>}
                           ELSE Orders(siteQuery(events, "m1", startTime, endTime)) :
            \E svcRows \in IF svcErr THEN {<< >>}
                            ELSE Orders(serviceQuery(events, "m1", serviceToDomains[svcKey],
                                                     startTime, endTime)) :
               slaOut' = [fn |-> "queryError", at |-> MaxTime,
                          siteErr |-> siteErr, svcErr |-> svcErr,
                          bd |-> billingBreakdown(svcKey, siteRows, svcRows)]
       /\ UNCHANGED events

\* generateMonthlyBillingPDF with data2.DB nil: CalculateSLAAdjustments returns
\* an error, the run goes on with an empty SLASummary, and the writers take
\* the pair's breakdown from getSLABreakdown
generateMonthlyBillingPDF_noDB ==
    \E svcKey \in DOMAIN SlaServices :
       LET sla == EmptyMap
           b == getSLABreakdown(sla, "m1", svcKey)
       IN /\ slaOut' = [fn |-> "artifact", at |-> MaxTime,
                        bd |-> [svc |-> svcKey, HoursTotal |-> b.HoursTotal,
                                HoursDown |-> b.HoursDown, HoursUp |-> b.HoursUp,
                                Uptime |-> b.Uptime, MeetsSLA |-> b.MeetsSLA]]
          /\ UNCHANGED events

\* handleBillingBreakdown with data2.DB nil: the error is answered with
\* status 500
handleBillingBreakdown_noDB ==
    /\ slaOut' = [fn |-> "error", at |-> MaxTime, status |-> 500]
    /\ UNCHANGED events

NextUnreadable ==
    \/ CalculateSLAAdjustments_queryError /\ UNCHANGED <<store, schedVars, refVars, costVars, bootVars>>
    \/ generateMonthlyBillingPDF_noDB /\ UNCHANGED <<store, schedVars, refVars, costVars, bootVars>>
    \/ handleBillingBreakdown_noDB /\ UNCHANGED <<store, schedVars, refVars, costVars, bootVars>>

SpecUnreadable == InitSLA /\ [][NextUnreadable]_vars

\* C22: when the events of a pair could not be read, no breakdown with zero
\* downtime and 100% uptime is reported for the pair.
C22_UnreadableLogIsNotFullUptime ==
    slaOut.fn \in {"queryError", "artifact"} =>
       ~(slaOut.bd.HoursDown = 0 /\ slaOut.bd.Uptime = Frac(100, 1))


\* ---------------------------------------------------------------------------
\* The process's start: main up to billing.Init
\* ---------------------------------------------------------------------------

\* the goroutines billing.Init starts
BillingTasks == {"hourly", "daily", "monthly", "catchup"}

\* before main runs: nothing published, data2.DB not yet assigned (nil)
InitStartup ==
    /\ boot = [pc |-> "stat", db |-> "nil", tasks |-> {}]
    /\ timers = [loop |-> "off"]
    /\ lastConfig = NoConfig
    /\ store = Publish([Members |-> EmptyMap, Services |-> EmptyMap], 0)
    /\ SchedOff
    /\ RefOff
    /\ SlaOff

\* os.Stat(*cfgPath): a missing file ends the process with status 1
main_stat ==
    /\ boot.pc = "stat"
    /\ \E exists \in BOOLEAN :
          boot' = [boot EXCEPT !.pc = IF exists THEN "cfg" ELSE "exited"]
    /\ UNCHANGED <<store, lastConfig>>

\* cfg.Init(*cfgPath); c := cfg.GetConfig()
main_cfgInit ==
    /\ boot.pc = "cfg"
    /\ \E c \in Configs : lastConfig' = c
    /\ boot' = [boot EXCEPT !.pc = "data2"]
    /\ UNCHANGED store

\* data2.Init(): returns nothing to main; data2.DB is a handle or stays nil
main_data2Init ==
    /\ boot.pc = "data2"
    /\ \E d \in {"nil", "open"} : boot' = [boot EXCEPT !.pc = "normalize", !.db = d]
    /\ UNCHANGED <<store, lastConfig>>

\* normalizeMemberEventCheckTypes at start: with data2.DB nil it returns nil,
\* otherwise main logs its error and goes on
main_normalize ==
    /\ boot.pc = "normalize"
    /\ boot' = [boot EXCEPT !.pc = "billing"]
    /\ UNCHANGED <<store, lastConfig>>

\* billing.Init(): refresh(true), then the four goroutines
billing_Init ==
    /\ boot.pc = "billing"
    /\ Refresh(lastConfig)
    /\ boot' = [boot EXCEPT !.pc = "running", !.tasks = BillingTasks]
    /\ UNCHANGED lastConfig

NextStartup ==
    \/ main_stat /\ UNCHANGED <<schedVars, refVars, slaVars, timers>>
    \/ main_cfgInit /\ UNCHANGED <<schedVars, refVars, slaVars, timers>>
    \/ main_data2Init /\ UNCHANGED <<schedVars, refVars, slaVars, timers>>
    \/ main_normalize /\ UNCHANGED <<schedVars, refVars, slaVars, timers>>
    \/ billing_Init /\ UNCHANGED <<schedVars, refVars, slaVars, timers>>

SpecStartup == InitStartup /\ [][NextStartup]_vars

\* C24: when the event log (data2.DB) or the configuration file cannot be
\* reached at start, billing.Init publishes no snapshot and starts none of its
\* tasks.
C24_NoSchedulerWithoutEventLog ==
    (boot.tasks # {} \/ store.Refresh > 0) => (boot.db = "open" /\ lastConfig # NoConfig)

\* the half main does enforce: without the configuration file nothing starts
MissingConfigFileStartsNothing ==
    boot.pc = "exited" => (boot.tasks = {} /\ store.Refresh = 0)


\* ---------------------------------------------------------------------------
\* The store lock, under SpecStore
\* ---------------------------------------------------------------------------
\* the store's lock is held by refresh only for its three assignments, and by
\* GetSummary only for its copy; refresh computes its maps before it locks
StoreLockOnlyForSwapOrCopy ==
    /\ rw.writer => wstate.pc \in {"w_members", "w_services", "w_refresh", "w_unlock"}
    /\ \A r \in Readers :
          r \in rw.readers <=> rstate[r].pc \in {"r_members", "r_services", "r_return"}


\* ---------------------------------------------------------------------------
\* The stored form of check_type, under SpecSLA
\* ---------------------------------------------------------------------------
\* the clamped periods among those calculateServiceDowntime collected
CollectedPeriods == { slaOut.bd.periods[i] : i \in DOMAIN slaOut.bd.periods }

\* C28: every site event of the member and every domain or endpoint event of
\* the service's domains that overlaps the month enters the pair's downtime,
\* whether its check_type is stored as '1', '2', '3' or as 'site', 'domain',
\* 'endpoint'.
C28_EveryStoredFormCounts ==
    slaOut.fn = "billing" =>
       /\ CountedPeriods(slaOut.bd.svc) \subseteq CollectedPeriods
       /\ slaOut.bd.HoursDown >= UnionLength(CountedPeriods(slaOut.bd.svc))

\* on a table that holds the numeric form only, every such event is collected
NumericFormCounts ==
    (slaOut.fn = "billing" /\ \A e \in events : e.check_type \in {"1", "2", "3"})
       => CountedPeriods(slaOut.bd.svc) \subseteq CollectedPeriods


\* ---------------------------------------------------------------------------
\* The hourly loop of Init and the clock it reads
\* ---------------------------------------------------------------------------
\* the clock counts units of five minutes from a UTC midnight
FiveMinutes == 1
Hour == 12
Day == 288

MaxLate == 2            \* units by which time.Sleep may return late
MaxWork == 1            \* units one iteration's work may take
MaxHours == 4           \* hours of the clock explored

\* t.Truncate(d): t rounded down to a multiple of d
Truncate(t, d) == t - (t % d)

\* a loop that sleeps one hour from wherever it is
HourlyTarget_fixedInterval(n) == n + Hour

\* next := time.Now().UTC().Truncate(time.Hour).Add(time.Hour)
HourlyTarget(n) == Truncate(n, Hour) + Hour

\* billing.Init at any time of an hour: the first refresh is done, the hourly
\* goroutine is about to compute its first target
InitHourly ==
    /\ \E t \in 0 .. (Hour - 1) :
          timers = [loop |-> "hourly", clock |-> t, start |-> t, pc |-> "h_compute",
                    next |-> 0, at |-> t, fires |-> {}]
    /\ \E c \in SchedConfigs : store = Publish(computeCosts(c), 1)
    /\ boot = [pc |-> "off", db |-> "open", tasks |-> {}]
    /\ SchedOff
    /\ RefOff
    /\ SlaOff
    /\ CostOff

HourlyCompute ==
    /\ timers.pc = "h_compute"
    /\ timers' = [timers EXCEPT !.pc = "h_sleep", !.at = timers.clock,
                                !.next = HourlyTarget(timers.clock)]
    /\ UNCHANGED store

\* time.Sleep(time.Until(next)) returns at the target or later
HourlyWake ==
    /\ timers.pc = "h_sleep"
    /\ \E late \in 0 .. MaxLate :
          /\ timers.next + late <= MaxHours * Hour
          /\ timers' = [timers EXCEPT !.pc = "h_refresh", !.clock = timers.next + late]
    /\ UNCHANGED store

\* refresh(false) publishes, and the loop starts over some time later
HourlyFire ==
    /\ timers.pc = "h_refresh"
    /\ \E c \in SchedConfigs : store' = Publish(computeCosts(c), store.Refresh + 1)
    /\ \E dur \in 0 .. MaxWork :
          timers' = [timers EXCEPT !.pc = "h_compute", !.clock = @ + dur,
                                   !.fires = @ \cup {timers.clock}]

NextHourly ==
    \/ HourlyCompute /\ UNCHANGED <<schedVars, refVars, slaVars, costVars, boot>>
    \/ HourlyWake /\ UNCHANGED <<schedVars, refVars, slaVars, costVars, boot>>
    \/ HourlyFire /\ UNCHANGED <<schedVars, refVars, slaVars, costVars, boot>>

SpecHourly == InitHourly /\ [][NextHourly]_vars

\* C29: the target the hourly loop sleeps to is the next whole hour after the
\* time it was computed at: strictly later, at most one hour away, a multiple
\* of the hour; so every refresh happens within the wake-up delay of an hour
\* boundary, however late the one before was.
C29_HourlyTargetIsNextBoundary ==
    /\ timers.pc = "h_sleep" =>
          /\ timers.next > timers.at
          /\ timers.next - timers.at <= Hour
          /\ timers.next % Hour = 0
    /\ \A f \in timers.fires : f % Hour <= MaxLate

\* a refresh that came late is followed by one on the next boundary itself
C29_Witness ==
    \E f, g \in timers.fires :
       /\ f % Hour # 0
       /\ g = Truncate(f, Hour) + Hour


\* ---------------------------------------------------------------------------
\* The daily loop of Init, the catch-up goroutine's daily run, and the clock
\* ---------------------------------------------------------------------------
MaxDays == 3            \* days of the clock explored

\* the UTC date of time t, as a day number: Format("20060102")
DateOf(t) == t \div Day

\* next := time.Now().UTC().Truncate(24h).Add(24h).Add(5 * time.Minute)
DailyTarget(n) == Truncate(n, Day) + Day + FiveMinutes

\* generateServiceCostPDF() at time t: service_cost_<date>.pdf is written anew
\* from the Summary of that moment, or the write fails and is logged
generateServiceCostPDF(out, t, ok) ==
    IF ok
    THEN { f \in out : f[1] # DateOf(t) } \cup { <<DateOf(t), store.Refresh>> }
    ELSE out

\* billing.Init at any time of a day
InitDaily ==
    /\ \E t \in 0 .. (Day - 1) :
          timers = [loop |-> "daily", clock |-> t, start |-> t, pc |-> "d_compute",
                    next |-> 0, at |-> t, fires |-> {}, out |-> {},
                    catchup |-> "c_sleep"]
    /\ store = Publish(computeCosts(ConfigA), 1)
    /\ boot = [pc |-> "off", db |-> "open", tasks |-> {}]
    /\ SchedOff
    /\ RefOff
    /\ SlaOff
    /\ CostOff

DailyCompute ==
    /\ timers.pc = "d_compute"
    /\ timers' = [timers EXCEPT !.pc = "d_sleep", !.at = timers.clock,
                                !.next = DailyTarget(timers.clock)]

\* the catch-up goroutine's "always generate current service cost PDF", a
\* short while after the start
CatchupDaily ==
    /\ timers.catchup = "c_sleep"
    /\ \E d \in 0 .. MaxWork, ok \in BOOLEAN :
          timers' = [timers EXCEPT
                        !.catchup = "c_done",
                        !.out = generateServiceCostPDF(@, timers.start + d, ok)]

\* time.Sleep(time.Until(next)) returns at the target or later; the catch-up
\* goroutine has long finished by then
DailyWake ==
    /\ timers.pc = "d_sleep"
    /\ timers.catchup = "c_done"
    /\ \E late \in 0 .. MaxLate :
          /\ timers.next + late <= MaxDays * Day
          /\ timers' = [timers EXCEPT !.pc = "d_fire", !.clock = timers.next + late]

\* generateServiceCostPDF(), and the loop starts over some time later
DailyFire ==
    /\ timers.pc = "d_fire"
    /\ \E dur \in 0 .. MaxWork, ok \in BOOLEAN :
          timers' = [timers EXCEPT
                        !.pc = "d_compute", !.clock = @ + dur,
                        !.fires = @ \cup {timers.clock},
                        !.out = generateServiceCostPDF(@, timers.clock, ok)]

NextDaily ==
    \/ DailyCompute /\ UNCHANGED <<store, schedVars, refVars, slaVars, costVars, boot>>
    \/ CatchupDaily /\ UNCHANGED <<store, schedVars, refVars, slaVars, costVars, boot>>
    \/ DailyWake /\ UNCHANGED <<store, schedVars, refVars, slaVars, costVars, boot>>
    \/ DailyFire /\ UNCHANGED <<store, schedVars, refVars, slaVars, costVars, boot>>

SpecDaily == InitDaily /\ [][NextDaily]_vars

\* the 00:05 instants of the days explored
FiveAfterMidnights == { k * Day + FiveMinutes : k \in 0 .. MaxDays }

\* 00:05 instant T has gone by, further than a wake-up can be late, and the
\* daily loop fired for it
FiredFor(T) ==
    (T + MaxLate < timers.clock) => \E f \in timers.fires : T <= f /\ f <= T + MaxLate

\* C30: on every UTC day whose 00:05 comes while the process runs, the daily
\* loop fires generateServiceCostPDF at 00:05: no such day is skipped.
C30_FiresOnEveryDay ==
    \A T \in FiveAfterMidnights : timers.start < T => FiredFor(T)

\* from the day after the start on, no day is skipped
FiresOnEveryLaterDay ==
    \A T \in FiveAfterMidnights : DateOf(timers.start) < DateOf(T) => FiredFor(T)

\* a daily run leaves one file per date, and nothing of the monthly job changes
DailyRunIsStateless ==
    /\ \A f, g \in timers.out : f[1] = g[1] => f = g
    /\ lastGeneratedBillingMonth = ZeroMonth
    /\ ~billingGenerationInProgress
    /\ files = {}

\* the day's file is written twice: by the catch-up run just after midnight
\* and by the loop at 00:05
SameDayRerun ==
    /\ DateOf(timers.start) = 0
    /\ timers.out = { <<1, store.Refresh>> }
    /\ timers.fires # {}

=============================================================================
